---- MODULE Spec2Model ----
(***************************************************************************)
(* Document-context chat pipeline: file registry, text extraction,         *)
(* summary/token accounting, per-user rate limiter and the LLM gateway     *)
(* with its bounded retry loop.                                            *)
(*                                                                         *)
(* The server is one Node.js process: a handler runs without interruption  *)
(* until it awaits real I/O (a provider call, a retry timer, a DOCX        *)
(* extraction).  Every action below is one such uninterrupted segment.     *)
(* Time is counted in milliseconds and advances a second at a time.        *)
(***************************************************************************)
EXTENDS Integers, Sequences, FiniteSets, TLC

VARIABLES
    now,            \* Date.now(), in milliseconds
    apiKey,         \* process.env.OPENAI_API_KEY is set
    client,         \* the lazily created OpenAI client exists
    requestCounts,  \* chat route: userId -> {count, timestamp}, or NoRecord
    filesStore,     \* fileService: userId -> [has, files]: the Map entry and its array
    disk,           \* set of [path, content]: the files that exist
    req,            \* in-flight and just-answered requests, by slot
    issued,         \* history: every record storeFile returned, id = index
    deletedIds,     \* history: ids deleteFile removed
    rlAdmits,       \* history: per user, the times of the chat calls admitted
                    \* during the last Window milliseconds
    rlWin           \* history: per user, reference window of the limiter

vars == <<now, apiKey, client, requestCounts, filesStore, disk, req,
          issued, deletedIds, rlAdmits, rlWin>>

(***************************************************************************)
(* Bounds and configuration                                                *)
(***************************************************************************)
MaxTime == 3000                  \* the clock stops here
Second == 1000                   \* the clock advances this much at a time
MaxConc == 2                     \* requests in flight at once
MaxFiles == 3                    \* records ever stored, files ever written
MaxBatch == 2                    \* files in one upload request
MaxChatFiles == 1                \* records in the registry the gateway reads
MaxFlightFiles == 2              \* records stored around a chat in flight
MaxLen == 6                      \* characters in a text given to a pure function
MaxChunk == 3                    \* chunkSize given to chunkText
MaxLines == 6                    \* lines in a text given to generateSummary
Limit == 2                       \* RATE_LIMIT_REQUESTS
Window == 2000                   \* RATE_LIMIT_WINDOW_MS
MAX_TOKENS_PER_REQUEST == 4000   \* the default of the environment variable
MAX_RETRIES == 3
RETRY_DELAY == 1000

Users == {"u1", "u2"}
Slots == 1..MaxConc
NoRecord == [count |-> 0, timestamp |-> -1]
NoList == [has |-> FALSE, files |-> <<>>]
Idle == [kind |-> "idle"]

(***************************************************************************)
(* Strings.  A string is a sequence of atoms: a one-character string is    *)
(* one character, and each fixed piece of a template of the source is one  *)
(* atom that carries the length of that piece.                             *)
(***************************************************************************)
Width(a) ==
    CASE a = "<system-head>" -> 100     \* "You are a helpful ... content. \n\n"
      [] a = "<system-tail>" -> 210     \* "\n\nPlease provide ... information."
      [] a = "<no-files>" -> 32         \* "No files have been uploaded yet."
      [] a = "<available>" -> 21        \* "Available Documents:\n"
      [] a = "<user-query>" -> 14       \* "\n\nUser Query: "
      [] a = "<file>" -> 7              \* "\nFile: "
      [] a = "<date>" -> 12             \* " (" "11/4/2026" ")"
      [] a = "<summary>" -> 10          \* "\nSummary: "
      [] a = "<rule>" -> 4              \* "\n---"
      [] a = "<failed-after-3>" -> 53   \* "Failed to get response from OpenAI after 3 attempts: "
      [] a = "<exceeds>" -> 27          \* "exceeds maximum token limit"
      [] a = "<rate-limit>" -> 19       \* "rate_limit_exceeded"
      [] a = "<api-key>" -> 14          \* "OPENAI_API_KEY"
      [] a = "<15000 x>" -> 15000       \* a text of 15000 letters
      [] a = "<500 x>" -> 500           \* a text of 500 letters
      [] a = "<50 x>" -> 50             \* a word of 50 letters
      [] a = "<30 x>" -> 30             \* a word of 30 letters
      [] a \in {".txt", ".csv", ".CSV", ".pdf"} -> 4
      [] a = ".docx" -> 5
      [] a = "<unsupported>" -> 23      \* "Unsupported file type: "
      [] a = "<failed-extract>" -> 19   \* "Failed to extract " kind " text: "
      [] OTHER -> 1

\* s.length, summed by halves.
RECURSIVE StrLen(_)
StrLen(s) ==
    IF s = <<>> THEN 0
    ELSE IF Len(s) = 1 THEN Width(s[1])
    ELSE StrLen(SubSeq(s, 1, Len(s) \div 2)) + StrLen(SubSeq(s, (Len(s) \div 2) + 1, Len(s)))

Includes(s, a) == \E i \in 1..Len(s) : s[i] = a

Rep(a, n) == [i \in 1..n |-> a]


(***************************************************************************)
(* Text extractor.  File bytes are strings too.  A DOCX container is the   *)
(* atom "<docx>" followed by its visible text; anything else is malformed. *)
(***************************************************************************)
UPLOAD_DIR == "./uploads"
DocxMime == "application/vnd.openxmlformats-officedocument.wordprocessingml.document"

\* fs.readFileSync of a path: the bytes, or a failure when no such file exists.
ReadFile(fs, path) ==
    IF path \in DOMAIN fs THEN [ok |-> TRUE, bytes |-> fs[path]]
    ELSE [ok |-> FALSE, bytes |-> <<>>]

\* s.split(sep): the pieces of s between the separators, empty pieces included.
RECURSIVE SplitFrom(_, _, _)
SplitFrom(s, sep, piece) ==
    IF s = <<>> THEN <<piece>>
    ELSE IF Head(s) = sep THEN <<piece>> \o SplitFrom(Tail(s), sep, <<>>)
    ELSE SplitFrom(Tail(s), sep, Append(piece, Head(s)))

Split(s, sep) == SplitFrom(s, sep, <<>>)

RECURSIVE Join(_, _)
Join(parts, sep) ==
    IF parts = <<>> THEN <<>>
    ELSE IF Len(parts) = 1 THEN parts[1]
    ELSE parts[1] \o sep \o Join(Tail(parts), sep)

\* csv-parse with columns: true and skip_empty_lines: true; a data row whose
\* length differs from the header's is an error.
CsvRows(bytes) ==
    LET lines == SelectSeq(Split(bytes, "\n"), LAMBDA l : l # <<>>)
    IN  [i \in 1..Len(lines) |-> Split(lines[i], ",")]

CsvValid(rows) == \A i \in 1..Len(rows) : Len(rows[i]) = Len(rows[1])

CsvLine(header, row) ==
    Join([k \in 1..Len(header) |-> header[k] \o <<":", " ">> \o row[k]], <<",", " ">>)

extractCsvText(fs, path) ==
    LET file == ReadFile(fs, path)
        rows == CsvRows(file.bytes)
    IN  IF ~file.ok \/ ~CsvValid(rows)
        THEN [ok |-> FALSE, text |-> <<>>, error |-> <<"<failed-extract>">>]
        ELSE [ok |-> TRUE,
              text |-> Join([i \in 1..(Len(rows) - 1) |-> CsvLine(rows[1], rows[i + 1])],
                            <<"\n">>),
              error |-> <<>>]

\* mammoth.extractRawText on a buffer: the visible text, each paragraph
\* followed by two newlines.
Mammoth(bytes) ==
    IF bytes # <<>> /\ Head(bytes) = "<docx>"
    THEN [ok |-> TRUE, text |-> Tail(bytes) \o <<"\n", "\n">>, error |-> <<>>]
    ELSE [ok |-> FALSE, text |-> <<>>, error |-> <<"<failed-extract>">>]

extractDocxText(fs, path) ==
    LET file == ReadFile(fs, path)
    IN  IF ~file.ok THEN [ok |-> FALSE, text |-> <<>>, error |-> <<"<failed-extract>">>]
        ELSE Mammoth(file.bytes)

extractTextFile(fs, path) ==
    LET file == ReadFile(fs, path)
    IN  IF ~file.ok THEN [ok |-> FALSE, text |-> <<>>, error |-> <<"<failed-extract>">>]
        ELSE [ok |-> TRUE, text |-> file.bytes, error |-> <<>>]

\* Faulty variant: the suffix test binds to both MIME types of the first rule.
Handler_SuffixBindsBoth(path, mimeType) ==
    IF (mimeType = "text/csv" \/ mimeType = "text/plain") /\ path.ext = ".csv" THEN "csv"
    ELSE IF mimeType = DocxMime \/ path.ext = ".docx" THEN "docx"
    ELSE IF mimeType = "text/plain" \/ path.ext = ".txt" THEN "txt"
    ELSE "unsupported"

\* The handler extractText dispatches to.
Handler(path, mimeType) ==
    IF mimeType = "text/csv" \/ (mimeType = "text/plain" /\ path.ext = ".csv") THEN "csv"
    ELSE IF mimeType = DocxMime \/ path.ext = ".docx" THEN "docx"
    ELSE IF mimeType = "text/plain" \/ path.ext = ".txt" THEN "txt"
    ELSE "unsupported"

extractText(fs, path, mimeType) ==
    CASE Handler(path, mimeType) = "csv" -> extractCsvText(fs, path)
      [] Handler(path, mimeType) = "docx" -> extractDocxText(fs, path)
      [] Handler(path, mimeType) = "txt" -> extractTextFile(fs, path)
      [] OTHER -> [ok |-> FALSE, text |-> <<>>, error |-> <<"<unsupported>">>]

(***************************************************************************)
(* Summarizer                                                              *)
(***************************************************************************)
IsBlank(line) == \A i \in 1..Len(line) : line[i] \in {" ", "\n", "\t", "\r"}

\* An atom that stands for a run of letters, and the characters of a string.
LetterRuns == {"<15000 x>", "<500 x>", "<50 x>", "<30 x>"}

RECURSIVE Chars(_)
Chars(s) ==
    IF s = <<>> THEN <<>>
    ELSE (IF Head(s) \in LetterRuns THEN Rep("x", Width(Head(s))) ELSE <<Head(s)>>)
             \o Chars(Tail(s))

\* s.substring(0, n): the cut may fall inside a run of letters.
RECURSIVE Substring(_, _)
Substring(s, n) ==
    IF s = <<>> \/ n = 0 THEN <<>>
    ELSE IF Width(Head(s)) <= n THEN <<Head(s)>> \o Substring(Tail(s), n - Width(Head(s)))
    ELSE IF Head(s) \in LetterRuns THEN Rep("x", n) ELSE <<>>

\* Faulty variant: the ellipsis is appended from 200 characters on.
generateSummary_EllipsisAtLimit(text) ==
    LET lines == SelectSeq(Split(text, "\n"), LAMBDA l : ~IsBlank(l))
        summary == Join(SubSeq(lines, 1, IF Len(lines) < 5 THEN Len(lines) ELSE 5), <<" ">>)
    IN  Substring(summary, 200) \o (IF StrLen(summary) >= 200 THEN <<".", ".", ".">> ELSE <<>>)

generateSummary(text) ==
    LET lines == SelectSeq(Split(text, "\n"), LAMBDA l : ~IsBlank(l))
        summary == Join(SubSeq(lines, 1, IF Len(lines) < 5 THEN Len(lines) ELSE 5), <<" ">>)
    IN  Substring(summary, 200) \o (IF StrLen(summary) > 200 THEN <<".", ".", ".">> ELSE <<>>)

(***************************************************************************)
(* Token estimate: openaiService.estimateTokenCount and                    *)
(* fileService.estimateTokenCount are the same Math.ceil(length / 4).      *)
(***************************************************************************)
Ceil4(n) == IF n % 4 = 0 THEN n \div 4 ELSE (n \div 4) + 1

openaiService_estimateTokenCount(text) == Ceil4(StrLen(text))

\* Faulty variant: the quotient is rounded down.
estimateTokenCount_Floor(text) == StrLen(text) \div 4

fileService_estimateTokenCount(text) == Ceil4(StrLen(text))

(***************************************************************************)
(* Rate limiter                                                            *)
(***************************************************************************)
\* Faulty variant: the count is compared with > where the code has >=.
checkRateLimit_OneMore(userId, counts, t) ==
    LET userRecord == counts[userId]
        reset == [ok |-> TRUE,
                  counts |-> [counts EXCEPT ![userId] = [count |-> 1, timestamp |-> t]]]
    IN  IF userRecord = NoRecord THEN reset
        ELSE IF t - userRecord.timestamp > Window THEN reset
        ELSE IF userRecord.count > Limit THEN [ok |-> FALSE, counts |-> counts]
        ELSE [ok |-> TRUE,
              counts |-> [counts EXCEPT ![userId].count = @ + 1]]

\* Faulty variant: a reset does not count the call that causes it.
checkRateLimit_ResetToZero(userId, counts, t) ==
    LET userRecord == counts[userId]
        reset == [ok |-> TRUE,
                  counts |-> [counts EXCEPT ![userId] = [count |-> 0, timestamp |-> t]]]
    IN  IF userRecord = NoRecord THEN reset
        ELSE IF t - userRecord.timestamp > Window THEN reset
        ELSE IF userRecord.count >= Limit THEN [ok |-> FALSE, counts |-> counts]
        ELSE [ok |-> TRUE,
              counts |-> [counts EXCEPT ![userId].count = @ + 1]]

\* Faulty variant: an admitted call inside the window restarts the window.
checkRateLimit_Restart(userId, counts, t) ==
    LET userRecord == counts[userId]
        reset == [ok |-> TRUE,
                  counts |-> [counts EXCEPT ![userId] = [count |-> 1, timestamp |-> t]]]
    IN  IF userRecord = NoRecord THEN reset
        ELSE IF t - userRecord.timestamp > Window THEN reset
        ELSE IF userRecord.count >= Limit THEN [ok |-> FALSE, counts |-> counts]
        ELSE [ok |-> TRUE,
              counts |-> [counts EXCEPT ![userId] = [count |-> @.count + 1, timestamp |-> t]]]

checkRateLimit(userId, counts, t) ==
    LET userRecord == counts[userId]
        reset == [ok |-> TRUE,
                  counts |-> [counts EXCEPT ![userId] = [count |-> 1, timestamp |-> t]]]
    IN  IF userRecord = NoRecord THEN reset
        ELSE IF t - userRecord.timestamp > Window THEN reset
        ELSE IF userRecord.count >= Limit THEN [ok |-> FALSE, counts |-> counts]
        ELSE [ok |-> TRUE,
              counts |-> [counts EXCEPT ![userId].count = @ + 1]]

(***************************************************************************)
(* Context builder                                                         *)
(***************************************************************************)
FileBlock(file) ==
    <<"<file>">> \o file.originalName \o <<"<date>", "<summary>">> \o file.summary
        \o <<"<rule>">>

\* Faulty variant: only the first file of the list is described.
JoinBlocks_FirstOnly(files) == IF files = <<>> THEN <<>> ELSE FileBlock(files[1])

RECURSIVE JoinBlocks(_)
JoinBlocks(files) ==
    IF files = <<>> THEN <<>>
    ELSE IF Len(files) = 1 THEN FileBlock(files[1])
    ELSE FileBlock(files[1]) \o <<"\n">> \o JoinBlocks(Tail(files))

\* Faulty variant: only the newest file of the list is described.
buildFileContext_NewestOnly(userFiles) ==
    IF Len(userFiles) = 0 THEN <<"<no-files>">>
    ELSE <<"<available>">> \o FileBlock(userFiles[Len(userFiles)])

buildFileContext(userFiles) ==
    IF Len(userFiles) = 0 THEN <<"<no-files>">>
    ELSE <<"<available>">> \o JoinBlocks(userFiles)

buildSystemPrompt(fileContext) ==
    <<"<system-head>">> \o fileContext \o <<"<system-tail>">>

buildFinalPrompt(fileContext, prompt) == fileContext \o <<"<user-query>">> \o prompt

getUserFiles(userId) ==
    IF filesStore[userId].has THEN filesStore[userId].files ELSE <<>>


(***************************************************************************)
(* LLM gateway: openaiService.chat up to its first provider call           *)
(***************************************************************************)
TokenLimitMessage == <<"R", "<exceeds>", "(", ">", ")">>
ApiKeyMessage == <<"<api-key>", "!">>
NoContentMessage == <<"N">>

\* What the provider can answer to one call.  usage is <<>> for a response
\* without usage.total_tokens, and <<n>> for one that reports n.
OkReply == [kind |-> "ok", content |-> <<"A">>, usage |-> <<57>>, message |-> <<>>]
NoUsageReply == [kind |-> "ok", content |-> <<"A">>, usage |-> <<>>, message |-> <<>>]
Throws(message) == [kind |-> "throw", content |-> <<>>, usage |-> <<>>, message |-> message]
ProviderReplies ==
    {OkReply,
     NoUsageReply,
     [kind |-> "ok", content |-> <<>>, usage |-> <<57>>, message |-> <<>>],
     Throws(<<"E">>)}

\* Replies that report no tokens, or fail with a message that reads like one
\* of the errors the route knows.
ErrorReplies ==
    {OkReply,
     NoUsageReply,
     [kind |-> "ok", content |-> <<"A">>, usage |-> <<0>>, message |-> <<>>],
     Throws(<<"E">>),
     Throws(<<"P", "<exceeds>">>),
     Throws(<<"4", "2", "9", " ", "<rate-limit>">>)}

\* Faulty variant: the client is created without looking at the key.
getClientFails_Never == FALSE

\* getClient(): the error it throws, or none; the client is created on success.
getClientFails == ~client /\ ~apiKey

\* Faulty variant: an estimate equal to the ceiling is rejected.
TokenCheckRejects_AtCeiling(estimatedTokens) == estimatedTokens >= MAX_TOKENS_PER_REQUEST

TokenCheckRejects(estimatedTokens) == estimatedTokens > MAX_TOKENS_PER_REQUEST

\* Faulty variant: the catch block has no case for the missing key.
ChatErrorResponse_NoKeyCase(message) ==
    IF Includes(message, "<rate-limit>")
        THEN [status |-> 429, code |-> "OPENAI_RATE_LIMIT"]
    ELSE IF Includes(message, "<exceeds>")
        THEN [status |-> 400, code |-> "TOKEN_LIMIT_EXCEEDED"]
    ELSE [status |-> 500, code |-> "INTERNAL_ERROR"]

\* Faulty variant: the provider's rate-limit error is answered with the
\* code of the local limiter.
ChatErrorResponse_LimiterCode(message) ==
    IF Includes(message, "<rate-limit>")
        THEN [status |-> 429, code |-> "RATE_LIMIT_EXCEEDED"]
    ELSE IF Includes(message, "<exceeds>")
        THEN [status |-> 400, code |-> "TOKEN_LIMIT_EXCEEDED"]
    ELSE IF Includes(message, "<api-key>")
        THEN [status |-> 500, code |-> "OPENAI_CONFIG_ERROR"]
    ELSE [status |-> 500, code |-> "INTERNAL_ERROR"]

\* The catch block of POST /chat, then the global error handler.
ChatErrorResponse(message) ==
    IF Includes(message, "<rate-limit>")
        THEN [status |-> 429, code |-> "OPENAI_RATE_LIMIT"]
    ELSE IF Includes(message, "<exceeds>")
        THEN [status |-> 400, code |-> "TOKEN_LIMIT_EXCEEDED"]
    ELSE IF Includes(message, "<api-key>")
        THEN [status |-> 500, code |-> "OPENAI_CONFIG_ERROR"]
    ELSE [status |-> 500, code |-> "INTERNAL_ERROR"]

\* The defaults of the route; temperatures are counted in tenths.
DEFAULT_MAX_TOKENS == 1000
DEFAULT_TEMPERATURE == 7

\* value || fallback, for a number of the request body: <<>> is a field
\* that is not there, <<n>> a field of value n.
OrDefault(value, fallback) == IF value = <<>> \/ value[1] = 0 THEN fallback ELSE value[1]

\* A chat request record; every chat slot has all the fields.  max_tokens
\* and temperature are what the provider call is given.
\* bodyMaxTokens and bodyTemperature are the fields of the request body.
ChatRec(userId, prompt) ==
    [kind |-> "chat", pc |-> "done", userId |-> userId, prompt |-> prompt,
     admitted |-> FALSE, systemPrompt |-> <<>>, finalPrompt |-> <<>>,
     filesReferenced |-> <<>>, estimatedTokens |-> 0, attempt |-> 0,
     lastError |-> <<>>, outcomes |-> <<>>, delays |-> <<>>, wakeAt |-> 0,
     status |-> 0, code |-> "", error |-> <<>>, response |-> <<>>,
     tokensUsed |-> 0, usage |-> <<>>,
     bodyMaxTokens |-> <<>>, bodyTemperature |-> <<>>,
     max_tokens |-> DEFAULT_MAX_TOKENS, temperature |-> DEFAULT_TEMPERATURE]

Answer(rec, status, code) == [rec EXCEPT !.pc = "done", !.status = status, !.code = code]

Fail(rec, message) ==
    LET e == ChatErrorResponse(message)
    IN  [Answer(rec, e.status, e.code) EXCEPT !.error = message]

\* openaiService.chat from its entry to the first provider call.
chat(rec, userFiles) ==
    LET fileContext == buildFileContext(userFiles)
        filesReferenced == [i \in 1..Len(userFiles) |-> userFiles[i].originalName]
        systemPrompt == buildSystemPrompt(fileContext)
        finalPrompt == buildFinalPrompt(fileContext, rec.prompt)
        estimatedTokens == openaiService_estimateTokenCount(systemPrompt \o finalPrompt)
        locals == [rec EXCEPT !.systemPrompt = systemPrompt,
                              !.finalPrompt = finalPrompt,
                              !.filesReferenced = filesReferenced,
                              !.estimatedTokens = estimatedTokens]
    IN  IF getClientFails THEN Fail(rec, ApiKeyMessage)
        ELSE IF TokenCheckRejects(estimatedTokens) THEN Fail(locals, TokenLimitMessage)
        ELSE [locals EXCEPT !.pc = "calling", !.attempt = 0]


(***************************************************************************)
(* POST /chat                                                              *)
(***************************************************************************)
RECURSIVE TrimLeft(_)
TrimLeft(s) == IF s # <<>> /\ Head(s) \in {" ", "\n"} THEN TrimLeft(Tail(s)) ELSE s

RECURSIVE TrimRight(_)
TrimRight(s) ==
    IF s # <<>> /\ s[Len(s)] \in {" ", "\n"} THEN TrimRight(SubSeq(s, 1, Len(s) - 1)) ELSE s

Trim(s) == TrimRight(TrimLeft(s))

\* Request bodies the model sends.  userId "" and prompt <<>> are missing fields.
ChatUsers == Users \cup {""}
Prompts ==
    {<<>>, <<" ">>,
     <<"<15000 x>", "<500 x>", "<30 x>", "a", "b", "c", "d", "e", "f">>,
     <<"<15000 x>", "<500 x>", "<30 x>", "a", "b", "c", "d", "e", "f", "g">>,
     <<"<15000 x>", "<500 x>", "<50 x>", "<30 x>", "<30 x>", "h", "i">>,
     <<"<15000 x>", "<500 x>", "<50 x>", "<30 x>", "<30 x>", "h", "i", "!">>}

\* Reference window of the limiter, kept beside the code's record: it starts at
\* the first call, or at the first call made more than Window after its start.
RefWindow(w, ok, t) ==
    IF w.calls = 0 \/ t - w.start > Window
    THEN [start |-> t, calls |-> 1, last |-> ok]
    ELSE [start |-> w.start,
          calls |-> IF w.calls > Limit THEN w.calls ELSE w.calls + 1,
          last |-> ok]

\* A new request is served in the lowest free slot.
FreeSlot(r) == req[r] = Idle /\ \A q \in 1..(r - 1) : req[q] # Idle

\* The handler from the arrival of the request to its first await.
PostChat(r, userId, prompt, maxTokens, temperature) ==
    /\ FreeSlot(r)
    /\ LET rec == [ChatRec(userId, prompt) EXCEPT !.bodyMaxTokens = maxTokens,
                                                   !.bodyTemperature = temperature]
       IN  IF userId = ""
           THEN /\ req' = [req EXCEPT ![r] = Answer(rec, 400, "MISSING_USER_ID")]
                /\ UNCHANGED <<requestCounts, client, rlAdmits, rlWin>>
           ELSE IF Len(Trim(prompt)) = 0
           THEN /\ req' = [req EXCEPT ![r] = Answer(rec, 400, "MISSING_PROMPT")]
                /\ UNCHANGED <<requestCounts, client, rlAdmits, rlWin>>
           ELSE LET rl == checkRateLimit(userId, requestCounts, now)
                IN  /\ requestCounts' = rl.counts
                    /\ rlWin' = [rlWin EXCEPT ![userId] = RefWindow(@, rl.ok, now)]
                    /\ rlAdmits' = [rlAdmits EXCEPT ![userId] =
                                        IF rl.ok THEN Append(@, now) ELSE @]
                    /\ IF ~rl.ok
                       THEN /\ req' = [req EXCEPT ![r] =
                                          Answer(rec, 429, "RATE_LIMIT_EXCEEDED")]
                            /\ UNCHANGED client
                       ELSE /\ req' = [req EXCEPT ![r] =
                                          chat([rec EXCEPT
                                                 !.admitted = TRUE,
                                                 !.max_tokens =
                                                     OrDefault(maxTokens, DEFAULT_MAX_TOKENS),
                                                 !.temperature =
                                                     OrDefault(temperature, DEFAULT_TEMPERATURE)],
                                               getUserFiles(userId))]
                            /\ client' = (client \/ apiKey)
    /\ UNCHANGED <<now, apiKey, filesStore, disk, issued, deletedIds>>

\* A request whose body has neither maxTokens nor temperature.
ChatRequest(r, userId, prompt) == PostChat(r, userId, prompt, <<>>, <<>>)

\* History of one request: what each of its provider calls came to.
Succeeded == [ok |-> TRUE, message |-> <<>>]
Failed(message) == [ok |-> FALSE, message |-> message]

\* Faulty variant: the catch block waits after the last attempt too.
ShouldDelay_EveryAttempt(attempt) == attempt < MAX_RETRIES

\* The catch block waits before every attempt but the last.
ShouldDelay(attempt) == attempt < MAX_RETRIES - 1

\* response.usage?.total_tokens || estimatedTokens
TokensUsed(reply, estimatedTokens) ==
    IF reply.usage # <<>> /\ reply.usage[1] # 0 THEN reply.usage[1] ELSE estimatedTokens

\* Faulty variant: the wait does not grow with the attempt.
Backoff_Constant(attempt) == RETRY_DELAY

\* The wait after failed attempt number attempt + 1.
Backoff(attempt) == RETRY_DELAY * (attempt + 1)

\* Faulty variant: a chat that ends without an answer gives its unit of the
\* quota back.
ProviderReply_Refund(r, reply) ==
    /\ req[r].kind = "chat"
    /\ req[r].pc = "calling"
    /\ LET success == reply.kind = "ok" /\ reply.content # <<>>
           message == IF reply.kind = "throw" THEN reply.message ELSE NoContentMessage
           rec == [req[r] EXCEPT !.outcomes =
                      Append(@, IF success THEN Succeeded ELSE Failed(message))]
       IN  /\ req' = [req EXCEPT ![r] =
                 IF success
                 THEN [Answer(rec, 200, "") EXCEPT
                           !.response = reply.content,
                           !.usage = reply.usage,
                           !.tokensUsed = TokensUsed(reply, rec.estimatedTokens)]
                 ELSE IF ShouldDelay(rec.attempt)
                 THEN [rec EXCEPT !.lastError = message,
                                  !.pc = "delaying",
                                  !.delays = Append(@, Backoff(rec.attempt)),
                                  !.wakeAt = now + Backoff(rec.attempt)]
                 ELSE [Fail(rec, <<"<failed-after-3>">> \o message) EXCEPT
                           !.lastError = message, !.attempt = rec.attempt + 1]]
           /\ requestCounts' =
                 IF ~success /\ ~ShouldDelay(rec.attempt)
                 THEN [requestCounts EXCEPT ![rec.userId].count = @ - 1]
                 ELSE requestCounts
    /\ UNCHANGED <<now, apiKey, client, filesStore, disk,
                   issued, deletedIds, rlAdmits, rlWin>>

\* Faulty variant: the names returned are read from the owner's list when the
\* provider answers.
ProviderReply_LiveList(r, reply) ==
    /\ req[r].kind = "chat"
    /\ req[r].pc = "calling"
    /\ LET success == reply.kind = "ok" /\ reply.content # <<>>
           message == IF reply.kind = "throw" THEN reply.message ELSE NoContentMessage
           userFiles == getUserFiles(req[r].userId)
           rec == [req[r] EXCEPT !.outcomes =
                      Append(@, IF success THEN Succeeded ELSE Failed(message))]
       IN  req' = [req EXCEPT ![r] =
              IF success
              THEN [Answer(rec, 200, "") EXCEPT
                        !.response = reply.content,
                        !.usage = reply.usage,
                        !.tokensUsed = TokensUsed(reply, rec.estimatedTokens),
                        !.filesReferenced =
                            [i \in 1..Len(userFiles) |-> userFiles[i].originalName]]
              ELSE IF ShouldDelay(rec.attempt)
              THEN [rec EXCEPT !.lastError = message,
                               !.pc = "delaying",
                               !.delays = Append(@, Backoff(rec.attempt)),
                               !.wakeAt = now + Backoff(rec.attempt)]
              ELSE [Fail(rec, <<"<failed-after-3>">> \o message) EXCEPT
                        !.lastError = message, !.attempt = rec.attempt + 1]]
    /\ UNCHANGED <<now, apiKey, client, requestCounts, filesStore, disk,
                   issued, deletedIds, rlAdmits, rlWin>>

\* One provider call returns or throws; the loop body up to the next await.
ProviderReply(r, reply) ==
    /\ req[r].kind = "chat"
    /\ req[r].pc = "calling"
    /\ LET success == reply.kind = "ok" /\ reply.content # <<>>
           message == IF reply.kind = "throw" THEN reply.message ELSE NoContentMessage
           rec == [req[r] EXCEPT !.outcomes =
                      Append(@, IF success THEN Succeeded ELSE Failed(message))]
       IN  req' = [req EXCEPT ![r] =
              IF success
              THEN [Answer(rec, 200, "") EXCEPT
                        !.response = reply.content,
                        !.usage = reply.usage,
                        !.tokensUsed = TokensUsed(reply, rec.estimatedTokens)]
              ELSE IF ShouldDelay(rec.attempt)
              THEN [rec EXCEPT !.lastError = message,
                               !.pc = "delaying",
                               !.delays = Append(@, Backoff(rec.attempt)),
                               !.wakeAt = now + Backoff(rec.attempt)]
              ELSE [Fail(rec, <<"<failed-after-3>">> \o message) EXCEPT
                        !.lastError = message, !.attempt = rec.attempt + 1]]
    /\ UNCHANGED <<now, apiKey, client, requestCounts, filesStore, disk,
                   issued, deletedIds, rlAdmits, rlWin>>

\* The retry timer fires: the loop starts its next attempt.
DelayDone(r) ==
    /\ req[r].kind = "chat"
    /\ req[r].pc = "delaying"
    /\ now >= req[r].wakeAt
    /\ req' = [req EXCEPT ![r].pc = "calling", ![r].attempt = @ + 1]
    /\ UNCHANGED <<now, apiKey, client, requestCounts, filesStore, disk,
                   issued, deletedIds, rlAdmits, rlWin>>

\* The response has been sent; the slot is free for the next request.
Forget(r) ==
    /\ req[r] # Idle
    /\ req[r].pc = "done"
    /\ req' = [req EXCEPT ![r] = Idle]
    /\ UNCHANGED <<now, apiKey, client, requestCounts, filesStore, disk,
                   issued, deletedIds, rlAdmits, rlWin>>

RECURSIVE Since(_, _)
Since(times, t) ==
    IF times = <<>> THEN <<>>
    ELSE IF Head(times) >= t THEN times ELSE Since(Tail(times), t)

Tick ==
    /\ now < MaxTime
    /\ now' = now + Second
    /\ rlAdmits' = [u \in Users |-> Since(rlAdmits[u], now' - Window)]
    /\ UNCHANGED <<apiKey, client, requestCounts, filesStore, disk, req,
                   issued, deletedIds, rlWin>>




(***************************************************************************)
(* Chunker                                                                 *)
(***************************************************************************)
Whitespace == {" ", "\n", "\t"}

\* text.split(/\s+/): the pieces between the runs of whitespace; a run at
\* the start or at the end of the text leaves an empty piece there.
RECURSIVE SplitWsFrom(_, _, _)
SplitWsFrom(s, piece, inRun) ==
    IF s = <<>> THEN <<piece>>
    ELSE IF Head(s) \in Whitespace
    THEN (IF inRun THEN <<>> ELSE <<piece>>) \o SplitWsFrom(Tail(s), <<>>, TRUE)
    ELSE SplitWsFrom(Tail(s), Append(piece, Head(s)), FALSE)

SplitWs(s) == SplitWsFrom(s, <<>>, FALSE)

\* Faulty variant: the chunk that is full is not pushed.
ChunkStep_NoFlush(st, word, chunkSize) ==
    IF StrLen(st.currentChunk \o word) > chunkSize
    THEN [chunks |-> st.chunks, currentChunk |-> word]
    ELSE [chunks |-> st.chunks,
          currentChunk |-> st.currentChunk
                             \o (IF st.currentChunk # <<>> THEN <<" ">> ELSE <<>>) \o word]

\* The body of the loop over the words.
ChunkStep(st, word, chunkSize) ==
    IF StrLen(st.currentChunk \o word) > chunkSize
    THEN [chunks |-> IF st.currentChunk # <<>>
                     THEN Append(st.chunks, Trim(st.currentChunk)) ELSE st.chunks,
          currentChunk |-> word]
    ELSE [chunks |-> st.chunks,
          currentChunk |-> st.currentChunk
                             \o (IF st.currentChunk # <<>> THEN <<" ">> ELSE <<>>) \o word]

RECURSIVE ChunkLoop(_, _, _)
ChunkLoop(st, words, chunkSize) ==
    IF words = <<>> THEN st
    ELSE ChunkLoop(ChunkStep(st, Head(words), chunkSize), Tail(words), chunkSize)

chunkText(text, chunkSize) ==
    LET st == ChunkLoop([chunks |-> <<>>, currentChunk |-> <<>>], SplitWs(text), chunkSize)
    IN  IF st.currentChunk # <<>> THEN Append(st.chunks, Trim(st.currentChunk))
        ELSE st.chunks

(***************************************************************************)
(* File registry                                                           *)
(***************************************************************************)
\* path.basename(uploadPath), and the file a bare name denotes for fs calls.
Basename(path) == [stem |-> path.stem, ts |-> path.ts, ext |-> path.ext]
InDir(dir, name) == [dir |-> dir, stem |-> name.stem, ts |-> name.ts, ext |-> name.ext]

\* Faulty variant: the record is put at the head of the owner's list.
storeFile_Unshift(store, ids, userId, file, summary, extractedText, t) ==
    LET userFile == [id |-> Len(ids) + 1,
                     userId |-> userId,
                     filename |-> [stem |-> file.path.stem, ts |-> file.path.ts,
                                   ext |-> file.path.ext],
                     originalName |-> file.originalname,
                     mimeType |-> file.mimetype,
                     uploadedAt |-> t,
                     extractedText |-> extractedText,
                     summary |-> summary,
                     tokenCount |-> Ceil4(StrLen(extractedText)),
                     fileSize |-> file.size]
        list == IF store[userId].has THEN store[userId].files ELSE <<>>
    IN  [userFile |-> userFile,
         store |-> [store EXCEPT ![userId] = [has |-> TRUE, files |-> <<userFile>> \o list]]]

\* storeFile once the text is extracted: the record, pushed on the owner's list.
\* The id is fresh: the number of ids given out so far, plus one.
storeFile(store, ids, userId, file, summary, extractedText, t) ==
    LET userFile == [id |-> Len(ids) + 1,
                     userId |-> userId,
                     filename |-> Basename(file.path),
                     originalName |-> file.originalname,
                     mimeType |-> file.mimetype,
                     uploadedAt |-> t,
                     extractedText |-> extractedText,
                     summary |-> summary,
                     tokenCount |-> fileService_estimateTokenCount(extractedText),
                     fileSize |-> file.size]
        list == IF store[userId].has THEN store[userId].files ELSE <<>>
    IN  [userFile |-> userFile,
         store |-> [store EXCEPT ![userId] = [has |-> TRUE, files |-> Append(list, userFile)]]]

\* userFiles.findIndex((f) => f.id === fileId), counted from 1; 0 when absent.
FindIndex(files, fileId) ==
    IF \E i \in 1..Len(files) : files[i].id = fileId
    THEN CHOOSE i \in 1..Len(files) :
            files[i].id = fileId /\ \A j \in 1..(i - 1) : files[j].id # fileId
    ELSE 0

\* Faulty variant: splice(index) without a count removes the rest of the list.
Splice_ToEnd(files, index) == SubSeq(files, 1, index - 1)

\* userFiles.splice(index, 1)
Splice(files, index) == SubSeq(files, 1, index - 1) \o SubSeq(files, index + 1, Len(files))

\* fs.existsSync / fs.unlinkSync of file.filename, a name relative to the
\* working directory; unlinkOk is whether the removal succeeds.
Unlink(fs, name, unlinkOk) ==
    LET target == InDir(".", name)
    IN  IF target \in DOMAIN fs /\ unlinkOk
        THEN [q \in DOMAIN fs \ {target} |-> fs[q]]
        ELSE fs

deleteFile(store, fs, userId, fileId, unlinkOk) ==
    LET userFiles == store[userId].files
        index == FindIndex(userFiles, fileId)
    IN  IF ~store[userId].has THEN [result |-> FALSE, store |-> store, fs |-> fs]
        ELSE IF index = 0 THEN [result |-> FALSE, store |-> store, fs |-> fs]
        ELSE [result |-> TRUE,
              store |-> [store EXCEPT ![userId].files = Splice(userFiles, index)],
              fs |-> Unlink(fs, userFiles[index].filename, unlinkOk)]

\* Faulty variant: the file is looked for in every owner's list.
getFile_AnyOwner(store, userId, fileId) ==
    IF \E u \in Users : store[u].has /\ FindIndex(store[u].files, fileId) # 0
    THEN LET u == CHOOSE v \in Users : store[v].has /\ FindIndex(store[v].files, fileId) # 0
         IN  store[u].files[FindIndex(store[u].files, fileId)]
    ELSE [id |-> 0]

NotFound == [id |-> 0]

getFile(store, userId, fileId) ==
    LET index == FindIndex(store[userId].files, fileId)
    IN  IF ~store[userId].has \/ index = 0 THEN NotFound ELSE store[userId].files[index]

(***************************************************************************)
(* Upload middleware (multer)                                              *)
(***************************************************************************)
ToLowerCase(ext) == IF ext = ".CSV" THEN ".csv" ELSE ext

fileFilter(file) ==
    \/ file.mimetype \in {"text/csv", "text/plain", DocxMime}
    \/ ToLowerCase(file.ext) \in {".csv", ".txt", ".docx"}

\* storage.filename and destination: where an uploaded file is written.
StoredPath(file, t) == [dir |-> UPLOAD_DIR, stem |-> file.stem, ts |-> t, ext |-> file.ext]

MulterFile(file, t) ==
    [path |-> StoredPath(file, t), mimetype |-> file.mimetype,
     size |-> StrLen(file.bytes), originalname |-> file.stem \o <<file.ext>>]

\* The files of a batch before the first one the filter refuses.
RECURSIVE Accepted(_)
Accepted(batch) ==
    IF batch = <<>> \/ ~fileFilter(Head(batch)) THEN <<>>
    ELSE <<Head(batch)>> \o Accepted(Tail(batch))

RECURSIVE WriteAll(_, _, _)
WriteAll(fs, batch, t) ==
    IF batch = <<>> THEN fs
    ELSE LET path == StoredPath(Head(batch), t)
         IN  WriteAll([q \in DOMAIN fs \cup {path} |->
                          IF q = path THEN Head(batch).bytes ELSE fs[q]],
                      Tail(batch), t)

\* After a refusal multer removes the files it has stored for the request.
RemoveAll(fs, batch, t) ==
    [q \in DOMAIN fs \ {StoredPath(batch[i], t) : i \in 1..Len(batch)} |-> fs[q]]


(***************************************************************************)
(* POST /files/upload and POST /files/upload-multiple                      *)
(***************************************************************************)
UploadRec(userId, multi, files) ==
    [kind |-> "upload", pc |-> "files", userId |-> userId, multi |-> multi,
     files |-> files, idx |-> 1, buffer |-> <<>>, summary |-> <<>>,
     uploadedFiles |-> <<>>, errors |-> <<>>, trace |-> <<>>, present |-> TRUE,
     status |-> 0, code |-> "", error |-> <<>>]

\* What the routes return of a stored record.
FileView(userFile) ==
    [id |-> userFile.id, filename |-> userFile.originalName,
     mimeType |-> userFile.mimeType, uploadedAt |-> userFile.uploadedAt,
     fileSize |-> userFile.fileSize, tokenCount |-> userFile.tokenCount,
     summary |-> userFile.summary]

Holds(store, userId, fileId) ==
    store[userId].has /\ FindIndex(store[userId].files, fileId) # 0

\* Faulty variant: the first failure ends the loop of the multiple route.
FileFailed_Abort(st, error) ==
    LET rec == [st.rec EXCEPT !.trace = Append(@, [idx |-> st.rec.idx, ok |-> FALSE])]
    IN  IF rec.multi
        THEN [st EXCEPT !.rec = [rec EXCEPT
                !.errors = Append(@, [filename |-> rec.files[rec.idx].originalname,
                                      error |-> error]),
                !.idx = Len(rec.files) + 1, !.pc = "files"]]
        ELSE [st EXCEPT !.rec = [Answer(rec, 500, "INTERNAL_ERROR") EXCEPT !.error = error]]

\* Faulty variant: the record is pushed before the text is extracted, and
\* stays when the extraction fails.
FileFailed_RecordStays(st, error) ==
    LET rec == [st.rec EXCEPT !.trace = Append(@, [idx |-> st.rec.idx, ok |-> FALSE])]
        stored == storeFile(st.store, st.issued, rec.userId, rec.files[rec.idx],
                            <<>>, <<>>, 0)
    IN  IF rec.multi
        THEN [st EXCEPT !.store = stored.store,
                        !.rec = [rec EXCEPT
                !.errors = Append(@, [filename |-> rec.files[rec.idx].originalname,
                                      error |-> error]),
                !.idx = @ + 1, !.pc = "files"]]
        ELSE [st EXCEPT !.store = stored.store,
                        !.rec = [Answer(rec, 500, "INTERNAL_ERROR") EXCEPT !.error = error]]

\* The catch of the current file: the single route passes the error on to the
\* error handler, the multiple route notes it and goes on to the next file.
FileFailed(st, error) ==
    LET rec == [st.rec EXCEPT !.trace = Append(@, [idx |-> st.rec.idx, ok |-> FALSE])]
    IN  IF rec.multi
        THEN [st EXCEPT !.rec = [rec EXCEPT
                !.errors = Append(@, [filename |-> rec.files[rec.idx].originalname,
                                      error |-> error]),
                !.idx = @ + 1, !.pc = "files"]]
        ELSE [st EXCEPT !.rec = [Answer(rec, 500, "INTERNAL_ERROR") EXCEPT !.error = error]]

\* lines 88-109 of storeFile for the current file, then the route's push.
FileStored(st, extractedText, t) ==
    LET rec == [st.rec EXCEPT !.trace = Append(@, [idx |-> st.rec.idx, ok |-> TRUE])]
        stored == storeFile(st.store, st.issued, rec.userId, rec.files[rec.idx],
                            rec.summary, extractedText, t)
        next == [rec EXCEPT !.uploadedFiles = Append(@, FileView(stored.userFile)),
                            !.idx = @ + 1, !.pc = "files"]
    IN  [rec |-> IF rec.multi THEN next ELSE Answer(next, 200, ""),
         store |-> stored.store,
         issued |-> Append(st.issued, stored.userFile)]

\* res.json of the multiple route, after the last file.
Respond(st) ==
    [st EXCEPT !.rec = [Answer(st.rec, 200, "") EXCEPT
        !.present = \A i \in 1..Len(st.rec.uploadedFiles) :
                        Holds(st.store, st.rec.userId, st.rec.uploadedFiles[i].id)]]

\* The handler from file rec.idx on, up to its next await of a DOCX
\* extraction or to its response.  A CSV or text file is read and extracted
\* twice with no await in between: by the route for the summary, by
\* storeFile for the stored text.
RECURSIVE RunUpload(_, _, _)
RunUpload(st, fs, t) ==
    LET rec == st.rec
        file == rec.files[rec.idx]
        first == extractText(fs, file.path, file.mimetype)
        second == extractText(fs, file.path, file.mimetype)
    IN  IF rec.pc = "done" THEN st
        ELSE IF rec.idx > Len(rec.files) THEN Respond(st)
        ELSE IF Handler(file.path, file.mimetype) = "docx" /\ ReadFile(fs, file.path).ok
        THEN [st EXCEPT !.rec.pc = "extract1",
                        !.rec.buffer = ReadFile(fs, file.path).bytes]
        ELSE IF ~first.ok THEN RunUpload(FileFailed(st, first.error), fs, t)
        ELSE IF ~second.ok THEN RunUpload(FileFailed(st, second.error), fs, t)
        ELSE RunUpload(FileStored([st EXCEPT !.rec.summary = generateSummary(first.text)],
                                  second.text, t), fs, t)

\* Files not yet processed by the uploads in flight.
RECURSIVE Pending(_)
Pending(slots) ==
    IF slots = {} THEN 0
    ELSE LET r == CHOOSE q \in slots : TRUE
         IN  (IF req[r].kind = "upload" /\ req[r].pc # "done"
              THEN Len(req[r].files) - req[r].idx + 1 ELSE 0) + Pending(slots \ {r})

\* The request arrives: multer filters and stores its files, then the route
\* handler runs up to its first await.  userId "" is a missing field.
UploadRequest(r, userId, batch, multi) ==
    /\ FreeSlot(r)
    /\ multi \/ Len(batch) <= 1
    /\ Len(issued) + Pending(Slots) + Len(batch) <= MaxFiles
    /\ LET accepted == Accepted(batch)
           files == [i \in 1..Len(batch) |-> MulterFile(batch[i], now)]
           rec == UploadRec(userId, multi, files)
           fs == WriteAll(disk, batch, now)
           st == RunUpload([rec |-> rec, store |-> filesStore, issued |-> issued], fs, now)
       IN  IF Len(accepted) < Len(batch)
           THEN /\ req' = [req EXCEPT ![r] = Answer(rec, 500, "INTERNAL_ERROR")]
                /\ disk' = RemoveAll(WriteAll(disk, accepted, now), accepted, now)
                /\ UNCHANGED <<filesStore, issued>>
           ELSE IF userId = ""
           THEN /\ req' = [req EXCEPT ![r] = Answer(rec, 400, "MISSING_USER_ID")]
                /\ disk' = fs
                /\ UNCHANGED <<filesStore, issued>>
           ELSE IF Len(batch) = 0
           THEN /\ req' = [req EXCEPT ![r] =
                              Answer(rec, 400, IF multi THEN "NO_FILES" ELSE "NO_FILE")]
                /\ disk' = fs
                /\ UNCHANGED <<filesStore, issued>>
           ELSE /\ req' = [req EXCEPT ![r] = st.rec]
                /\ disk' = fs
                /\ filesStore' = st.store
                /\ issued' = st.issued
    /\ UNCHANGED <<now, apiKey, client, requestCounts, deletedIds, rlAdmits, rlWin>>

\* mammoth has finished the route's extraction of a DOCX file: the summary is
\* made and storeFile reads the file again for its own extraction.
DocxExtracted(r) ==
    /\ req[r].kind = "upload"
    /\ req[r].pc = "extract1"
    /\ LET rec == req[r]
           st == [rec |-> rec, store |-> filesStore, issued |-> issued]
           first == Mammoth(rec.buffer)
           again == ReadFile(disk, rec.files[rec.idx].path)
           out == IF ~first.ok THEN RunUpload(FileFailed(st, first.error), disk, now)
                  ELSE IF ~again.ok
                  THEN RunUpload(FileFailed(st, <<"<failed-extract>">>), disk, now)
                  ELSE [st EXCEPT !.rec.summary = generateSummary(first.text),
                                  !.rec.buffer = again.bytes,
                                  !.rec.pc = "extract2"]
       IN  /\ req' = [req EXCEPT ![r] = out.rec]
           /\ filesStore' = out.store
           /\ issued' = out.issued
    /\ UNCHANGED <<now, apiKey, client, requestCounts, disk, deletedIds, rlAdmits, rlWin>>

\* mammoth has finished storeFile's extraction: the record is stored and the
\* handler goes on.
DocxStored(r) ==
    /\ req[r].kind = "upload"
    /\ req[r].pc = "extract2"
    /\ LET rec == req[r]
           st == [rec |-> rec, store |-> filesStore, issued |-> issued]
           second == Mammoth(rec.buffer)
           out == IF ~second.ok THEN RunUpload(FileFailed(st, second.error), disk, now)
                  ELSE RunUpload(FileStored(st, second.text, now), disk, now)
       IN  /\ req' = [req EXCEPT ![r] = out.rec]
           /\ filesStore' = out.store
           /\ issued' = out.issued
    /\ UNCHANGED <<now, apiKey, client, requestCounts, disk, deletedIds, rlAdmits, rlWin>>

(***************************************************************************)
(* DELETE /files/:fileId                                                   *)
(***************************************************************************)
DeleteRec(userId, fileId) ==
    [kind |-> "delete", pc |-> "done", userId |-> userId, fileId |-> fileId,
     unlinkFailed |-> FALSE, bytesLeft |-> FALSE, status |-> 0, code |-> ""]

FileIds == 1..MaxFiles

DeleteRequest(r, userId, fileId, unlinkOk) ==
    /\ FreeSlot(r)
    /\ LET rec == DeleteRec(userId, fileId)
           out == deleteFile(filesStore, disk, userId, fileId, unlinkOk)
           file == getFile(filesStore, userId, fileId)
       IN  IF userId = ""
           THEN /\ req' = [req EXCEPT ![r] = Answer(rec, 400, "MISSING_USER_ID")]
                /\ UNCHANGED <<filesStore, disk, deletedIds>>
           ELSE /\ filesStore' = out.store
                /\ disk' = out.fs
                /\ deletedIds' = IF out.result THEN deletedIds \cup {fileId} ELSE deletedIds
                /\ req' = [req EXCEPT ![r] =
                      IF out.result
                      THEN [Answer(rec, 200, "") EXCEPT
                              !.unlinkFailed =
                                  InDir(".", file.filename) \in DOMAIN disk /\ ~unlinkOk,
                              !.bytesLeft = InDir(UPLOAD_DIR, file.filename) \in DOMAIN out.fs]
                      ELSE Answer(rec, 404, "FILE_NOT_FOUND")]
    /\ UNCHANGED <<now, apiKey, client, requestCounts, issued, rlAdmits, rlWin>>

(***************************************************************************)
(* GET /files/:fileId and GET /files/list                                  *)
(***************************************************************************)
GetRequest(r, userId, fileId) ==
    /\ FreeSlot(r)
    /\ LET rec == [kind |-> "get", pc |-> "done", userId |-> userId, fileId |-> fileId,
                   file |-> NotFound, status |-> 0, code |-> ""]
           file == getFile(filesStore, userId, fileId)
       IN  req' = [req EXCEPT ![r] =
              IF userId = "" THEN Answer(rec, 400, "MISSING_USER_ID")
              ELSE IF file = NotFound THEN Answer(rec, 404, "FILE_NOT_FOUND")
              ELSE [Answer(rec, 200, "") EXCEPT !.file = file]]
    /\ UNCHANGED <<now, apiKey, client, requestCounts, filesStore, disk,
                   issued, deletedIds, rlAdmits, rlWin>>

ListRequest(r, userId) ==
    /\ FreeSlot(r)
    /\ LET rec == [kind |-> "list", pc |-> "done", userId |-> userId, files |-> <<>>,
                   status |-> 0, code |-> ""]
           userFiles == getUserFiles(userId)
       IN  req' = [req EXCEPT ![r] =
              IF userId = "" THEN Answer(rec, 400, "MISSING_USER_ID")
              ELSE [Answer(rec, 200, "") EXCEPT
                      !.files = [i \in 1..Len(userFiles) |-> FileView(userFiles[i])]]]
    /\ UNCHANGED <<now, apiKey, client, requestCounts, filesStore, disk,
                   issued, deletedIds, rlAdmits, rlWin>>

(***************************************************************************)
(* Uploads the model sends                                                 *)
(***************************************************************************)
Hello == <<"H", "e", "l", "l", "o", "\n", "W", "o", "r", "l", "d">>
TxtFile == [stem |-> <<"a">>, ext |-> ".txt", mimetype |-> "text/plain", bytes |-> Hello]
EmptyFile == [stem |-> <<"a">>, ext |-> ".txt", mimetype |-> "text/plain", bytes |-> <<>>]
CsvFile == [stem |-> <<"c">>, ext |-> ".csv", mimetype |-> "text/csv",
            bytes |-> <<"k", ",", "v", "\n", "1", ",", "2">>]
DocxFile == [stem |-> <<"d">>, ext |-> ".docx", mimetype |-> DocxMime,
             bytes |-> <<"<docx>", "H", "i">>]
BadDocxFile == [stem |-> <<"b">>, ext |-> ".docx", mimetype |-> DocxMime,
                bytes |-> <<"z">>]
PdfFile == [stem |-> <<"p">>, ext |-> ".pdf", mimetype |-> "application/pdf",
            bytes |-> <<"%">>]
UpperCsvFile == [stem |-> <<"c">>, ext |-> ".CSV", mimetype |-> "application/octet-stream",
                 bytes |-> <<"k", "\n", "1">>]

\* Another document of the same name as DocxFile.
DocxOther == [stem |-> <<"d">>, ext |-> ".docx", mimetype |-> DocxMime,
              bytes |-> <<"<docx>", "Y", "o">>]

Batches(samples, n) == UNION {[1..k -> samples] : k \in 0..n}

Init ==
    /\ now = 0
    /\ apiKey \in BOOLEAN
    /\ client = FALSE
    /\ requestCounts = [u \in Users |-> NoRecord]
    /\ filesStore = [u \in Users |-> NoList]
    /\ disk = [q \in {} |-> <<>>]
    /\ req = [r \in Slots |-> Idle]
    /\ issued = <<>>
    /\ deletedIds = {}
    /\ rlAdmits = [u \in Users |-> <<>>]
    /\ rlWin = [u \in Users |-> [start |-> 0, calls |-> 0, last |-> TRUE]]


\* The pure functions of the file service, called on small texts.
Letters == {"a", "b", " ", "\n"}
Texts == UNION {[1..k -> Letters] : k \in 0..MaxLen}

ChunkCall(text, chunkSize) ==
    /\ req[1] = Idle
    /\ req' = [req EXCEPT ![1] = [kind |-> "chunkText", pc |-> "done", text |-> text,
                                  chunkSize |-> chunkSize,
                                  chunks |-> chunkText(text, chunkSize)]]
    /\ UNCHANGED <<now, apiKey, client, requestCounts, filesStore, disk,
                   issued, deletedIds, rlAdmits, rlWin>>

\* Texts of up to MaxLines lines, short, blank and long ones.
LinePool == {<<>>, <<" ">>, <<"a">>, <<"<50 x>">>, Rep("<50 x>", 4)}
SummaryTexts == {Join(ls, <<"\n">>) : ls \in UNION {[1..k -> LinePool] : k \in 0..MaxLines}}

SummaryCall(text) ==
    /\ req[1] = Idle
    /\ req' = [req EXCEPT ![1] = [kind |-> "generateSummary", pc |-> "done", text |-> text,
                                  summary |-> generateSummary(text)]]
    /\ UNCHANGED <<now, apiKey, client, requestCounts, filesStore, disk,
                   issued, deletedIds, rlAdmits, rlWin>>

\* extractText on one file on disk, for every MIME type and suffix.
MimeTypes == {"text/csv", "text/plain", DocxMime, "application/pdf", "application/octet-stream"}
Suffixes == {".csv", ".docx", ".txt", ".pdf", ".CSV"}
Contents == {<<"<docx>", "k", ",", "v", "\n", "1", ",", "2">>, <<"k", ",", "v", "\n", "1">>}
PathWith(ext) == [dir |-> UPLOAD_DIR, stem |-> <<"f">>, ts |-> 0, ext |-> ext]

ExtractCall(ext, mimeType, bytes) ==
    /\ req[1] = Idle
    /\ req' = [req EXCEPT ![1] =
                 [kind |-> "extractText", pc |-> "done", path |-> PathWith(ext),
                  mimeType |-> mimeType, bytes |-> bytes,
                  result |-> extractText([p \in {PathWith(ext)} |-> bytes],
                                         PathWith(ext), mimeType)]]
    /\ UNCHANGED <<now, apiKey, client, requestCounts, filesStore, disk,
                   issued, deletedIds, rlAdmits, rlWin>>

NextText ==
    \/ req[1] = Idle /\ \E text \in Texts, chunkSize \in 1..MaxChunk : ChunkCall(text, chunkSize)
    \/ req[1] = Idle /\ \E text \in SummaryTexts : SummaryCall(text)
    \/ req[1] = Idle /\ \E ext \in Suffixes, mimeType \in MimeTypes, bytes \in Contents :
           ExtractCall(ext, mimeType, bytes)
    \/ Forget(1)

SpecText == Init /\ [][NextText]_vars

\* The gateway: one user, every prompt and every provider behaviour, over a
\* registry that single uploads of a text file fill.
NextChat ==
    \/ Tick
    \/ \E r \in Slots : \E prompt \in Prompts : ChatRequest(r, "u1", prompt)
    \/ \E r \in Slots : \E reply \in ProviderReplies : ProviderReply(r, reply)
    \/ \E r \in Slots : DelayDone(r)
    \/ \E r \in Slots : Len(issued) < MaxChatFiles /\ UploadRequest(r, "u1", <<TxtFile>>, FALSE)
    \/ \E r \in Slots : Forget(r)

SpecChat == Init /\ [][NextChat]_vars

\* The limiter: every user, a provider that answers.
NextRate ==
    \/ Tick
    \/ \E r \in Slots : \E userId \in ChatUsers, prompt \in {<<" ">>, <<"h", "i">>} :
            ChatRequest(r, userId, prompt)
    \/ \E r \in Slots : ProviderReply(r, OkReply)
    \/ \E r \in Slots : Forget(r)

SpecRate == Init /\ [][NextRate]_vars

\* The gateway's answers: one user or none, a blank, a short and an
\* oversized prompt, a provider whose replies include the odd ones.
NextErr ==
    \/ Tick
    \/ \E userId \in {"u1", ""} :
       \E prompt \in {<<" ">>, <<"h", "i">>, <<"<15000 x>", "<500 x>", "<500 x>">>} :
            ChatRequest(1, userId, prompt)
    \/ \E reply \in ErrorReplies : ProviderReply(1, reply)
    \/ DelayDone(1)
    \/ Forget(1)

SpecErr == Init /\ [][NextErr]_vars

\* The file routes do not look at the key.
InitFiles == Init /\ apiKey

\* The registry: both owners upload single files and delete.
NextFiles ==
    \/ \E r \in Slots : \E userId \in Users, file \in {TxtFile, DocxFile} :
            UploadRequest(r, userId, <<file>>, FALSE)
    \/ \E r \in Slots : DocxExtracted(r)
    \/ \E r \in Slots : DocxStored(r)
    \/ \E r \in Slots : \E userId \in ChatUsers, fileId \in FileIds, unlinkOk \in BOOLEAN :
            DeleteRequest(r, userId, fileId, unlinkOk)
    \/ \E r \in Slots : Forget(r)

SpecFiles == InitFiles /\ [][NextFiles]_vars

\* Uploads of several files by one owner, who also deletes.
NextMulti ==
    \/ \E r \in Slots : \E batch \in Batches({TxtFile, UpperCsvFile, DocxFile, BadDocxFile}, MaxBatch) :
            UploadRequest(r, "u1", batch, TRUE)
    \/ \E r \in Slots : DocxExtracted(r)
    \/ \E r \in Slots : DocxStored(r)
    \/ \E r \in Slots : \E fileId \in FileIds : DeleteRequest(r, "u1", fileId, TRUE)
    \/ \E r \in Slots : Forget(r)

SpecMulti == InitFiles /\ [][NextMulti]_vars

\* Ingestion: one owner uploads single files of every kind.
Samples == {TxtFile, EmptyFile, CsvFile, DocxFile, BadDocxFile, PdfFile, UpperCsvFile}

NextStore ==
    \/ \E r \in Slots : \E file \in Samples : UploadRequest(r, "u1", <<file>>, FALSE)
    \/ \E r \in Slots : DocxExtracted(r)
    \/ \E r \in Slots : DocxStored(r)
    \/ \E r \in Slots : Forget(r)

SpecStore == InitFiles /\ [][NextStore]_vars

\* The context: one owner uploads text and CSV files, deletes and chats
\* with a provider that answers.
NextCtx ==
    \/ \E r \in Slots : \E file \in {TxtFile, CsvFile} : UploadRequest(r, "u1", <<file>>, FALSE)
    \/ \E r \in Slots : \E fileId \in FileIds : DeleteRequest(r, "u1", fileId, TRUE)
    \/ \E r \in Slots : ChatRequest(r, "u1", <<"h", "i">>)
    \/ \E r \in Slots : ProviderReply(r, OkReply)
    \/ \E r \in Slots : Forget(r)

SpecCtx == InitFiles /\ [][NextCtx]_vars

\* Ownership: both owners store a text file, list, read and delete by id.
NextOwner ==
    \/ \E r \in Slots : \E userId \in Users : UploadRequest(r, userId, <<TxtFile>>, FALSE)
    \/ \E r \in Slots : \E userId \in Users, fileId \in FileIds :
            DeleteRequest(r, userId, fileId, TRUE)
    \/ \E r \in Slots : \E userId \in ChatUsers, fileId \in FileIds : GetRequest(r, userId, fileId)
    \/ \E r \in Slots : \E userId \in ChatUsers : ListRequest(r, userId)
    \/ \E r \in Slots : Forget(r)

SpecOwner == InitFiles /\ [][NextOwner]_vars

\* The sampling parameters: one user, bodies with and without maxTokens and
\* temperature.
NextBody ==
    \/ Tick
    \/ \E maxTokens \in {<<>>, <<256>>}, temperature \in {<<>>, <<0>>, <<2>>, <<20>>} :
            PostChat(1, "u1", <<"h", "i">>, maxTokens, temperature)
    \/ \E reply \in {OkReply, Throws(<<"E">>)} : ProviderReply(1, reply)
    \/ DelayDone(1)
    \/ Forget(1)

SpecBody == InitFiles /\ [][NextBody]_vars

\* A chat in flight: while the chat in slot 1 waits for the provider or for
\* its retry timer, its owner uploads and deletes.
NextFlight ==
    \/ Tick
    \/ ChatRequest(1, "u1", <<"h", "i">>)
    \/ \E reply \in {OkReply, Throws(<<"E">>)} : ProviderReply(1, reply)
    \/ DelayDone(1)
    \/ \E r \in Slots : \E file \in {TxtFile, CsvFile} :
            Len(issued) < MaxFlightFiles /\ UploadRequest(r, "u1", <<file>>, FALSE)
    \/ \E r \in Slots : \E fileId \in 1..MaxFlightFiles : DeleteRequest(r, "u1", fileId, TRUE)
    \/ \E r \in Slots : Forget(r)

SpecFlight == InitFiles /\ [][NextFlight]_vars

\* Uploads that meet: one owner sends documents of the same name, also
\* while an earlier one is still being extracted.
NextRace ==
    \/ Tick
    \/ \E r \in Slots : \E file \in {TxtFile, DocxFile, DocxOther} :
            UploadRequest(r, "u1", <<file>>, FALSE)
    \/ \E r \in Slots : DocxExtracted(r)
    \/ \E r \in Slots : DocxStored(r)
    \/ \E r \in Slots : Forget(r)

SpecRace == InitFiles /\ [][NextRace]_vars

\* The estimate and the registry: one owner uploads and deletes, and chats
\* with a short prompt, with the longest prompt that passes with an empty
\* list, and with one a character longer than passes with one text file.
GrowPrompts ==
    {<<"h", "i">>,
     <<"<15000 x>", "<500 x>", "<50 x>", "<30 x>", "<30 x>", "h", "i">>,
     <<"<15000 x>", "<500 x>", "<30 x>", "a", "b", "c", "d", "e", "f", "g">>}

NextGrow ==
    \/ \E r \in Slots : \E prompt \in GrowPrompts : ChatRequest(r, "u1", prompt)
    \/ \E r \in Slots : ProviderReply(r, OkReply)
    \/ \E r \in Slots : \E file \in {TxtFile, EmptyFile} : UploadRequest(r, "u1", <<file>>, FALSE)
    \/ \E r \in Slots : \E fileId \in FileIds : DeleteRequest(r, "u1", fileId, TRUE)
    \/ \E r \in Slots : Forget(r)

SpecGrow == InitFiles /\ [][NextGrow]_vars

(***************************************************************************)
(* Claims                                                                  *)
(***************************************************************************)
ChatSlots == {r \in Slots : req[r].kind = "chat"}

AllFailed(outcomes, n) == \A i \in 1..n : ~outcomes[i].ok

\* C1: the provider calls of one chat are made one after another, the loop
\* stops at the first call that returns non-empty text, there are never more
\* than 3 calls, and after a third failure chat ends with the
\* failed-after-3-attempts error that carries the last call's error message.
C1_BoundedRetries ==
    \A r \in ChatSlots :
        LET c == req[r]
            n == Len(c.outcomes)
        IN  /\ n <= 3
            /\ AllFailed(c.outcomes, n - 1)
            /\ c.pc = "calling" => n = c.attempt /\ AllFailed(c.outcomes, n)
            /\ c.pc = "delaying" => n \in 1..2 /\ AllFailed(c.outcomes, n)
            /\ (c.pc = "done" /\ n > 0) =>
                  IF c.outcomes[n].ok
                  THEN c.status = 200 /\ c.response # <<>>
                  ELSE /\ n = 3
                       /\ c.status # 200
                       /\ c.error = <<"<failed-after-3>">> \o c.outcomes[3].message

C1_Witness ==
    /\ \E r \in ChatSlots :
          /\ req[r].pc = "done" /\ req[r].status = 200
          /\ Len(req[r].outcomes) = 3
    /\ \E r \in ChatSlots :
          /\ req[r].pc = "done" /\ req[r].status # 200
          /\ Len(req[r].outcomes) = 3

\* C2: a chat whose estimate ceil(len(systemPrompt + finalPrompt) / 4) is
\* above the ceiling ends at once with the token-limit error and no provider
\* call; an estimate at or below the ceiling is not rejected by the token check.
\* (A chat that has no client fails before the estimate is made, also
\* with no provider call.)
C2_TokenCeiling ==
    \A r \in ChatSlots :
        LET c == req[r]
            chars == StrLen(c.systemPrompt) + StrLen(c.finalPrompt)
            estimated == c.systemPrompt # <<>>
        IN  /\ (estimated /\ chars > 4 * MAX_TOKENS_PER_REQUEST) =>
                  /\ c.pc = "done"
                  /\ c.status = 400 /\ c.code = "TOKEN_LIMIT_EXCEEDED"
                  /\ c.outcomes = <<>>
            /\ (estimated /\ chars <= 4 * MAX_TOKENS_PER_REQUEST) =>
                  /\ c.code # "TOKEN_LIMIT_EXCEEDED"
                  /\ c.pc = "done" => c.outcomes # <<>>
            /\ (c.admitted /\ ~estimated) =>
                  c.code = "OPENAI_CONFIG_ERROR" /\ c.outcomes = <<>>

C2_Witness ==
    /\ \E r \in ChatSlots :
          /\ req[r].code = "TOKEN_LIMIT_EXCEEDED"
          /\ StrLen(req[r].systemPrompt) + StrLen(req[r].finalPrompt)
                = 4 * MAX_TOKENS_PER_REQUEST + 1
    /\ \E r \in ChatSlots :
          /\ req[r].status = 200
          /\ StrLen(req[r].systemPrompt) + StrLen(req[r].finalPrompt)
                = 4 * MAX_TOKENS_PER_REQUEST

\* C3: inside one window the first Limit calls of a user are admitted and
\* every later call is refused, whatever other users do; the first call made
\* more than Window after the window's start is admitted again.
C3_FirstLimitCalls ==
    \A u \in Users :
        rlWin[u].calls > 0 => (rlWin[u].last <=> rlWin[u].calls <= Limit)

C3_Witness ==
    \E u \in Users, v \in Users :
        /\ u # v
        /\ rlWin[u].calls = Limit + 1 /\ ~rlWin[u].last
        /\ rlWin[v].start > Window /\ rlWin[v].calls = 1 /\ rlWin[v].last
        /\ requestCounts[v].timestamp = rlWin[v].start

AdmittedSince(u, t) == Cardinality({i \in DOMAIN rlAdmits[u] : rlAdmits[u][i] >= t})

\* C4 as claimed: in every interval of length Window no more than Limit
\* requests of one user are admitted.
C4_SlidingWindow ==
    \A u \in Users : AdmittedSince(u, now - Window + 1) <= Limit

\* C4 amended: the limiter is a fixed window.  No more than Limit requests are
\* admitted in the window that starts at the record's timestamp and lasts
\* Window; an interval of length Window that straddles two windows admits
\* fewer than 2 * Limit.
C4_FixedWindow ==
    \A u \in Users :
        /\ (requestCounts[u] # NoRecord /\ now - requestCounts[u].timestamp <= Window)
              => AdmittedSince(u, requestCounts[u].timestamp) <= Limit
        /\ AdmittedSince(u, now - Window + 1) < 2 * Limit

C4_Witness ==
    \E u \in Users :
        /\ requestCounts[u].timestamp > 0
        /\ AdmittedSince(u, requestCounts[u].timestamp) = Limit
        /\ AdmittedSince(u, now - Window + 1) > Limit

Called(u, r) ==
    /\ req[r] = Idle /\ req'[r] # Idle
    /\ req'[r].kind = "chat" /\ req'[r].userId = u
    /\ req'[r].code \notin {"MISSING_USER_ID", "MISSING_PROMPT"}

C5_CountInRange ==
    \A u \in Users :
        requestCounts[u] # NoRecord =>
            requestCounts[u].count >= 1 /\ requestCounts[u].count <= Limit

C5_Step ==
    \A u \in Users :
        LET old == requestCounts[u]
            new == requestCounts'[u]
            expired == old = NoRecord \/ now - old.timestamp > Window
        IN  /\ (\E r \in Slots : Called(u, r) /\ req'[r].code = "RATE_LIMIT_EXCEEDED")
                  => new = old
            /\ (\E r \in Slots : Called(u, r) /\ req'[r].admitted) =>
                  IF expired THEN new = [count |-> 1, timestamp |-> now]
                  ELSE new = [count |-> old.count + 1, timestamp |-> old.timestamp]
            /\ new # old => \E r \in Slots : Called(u, r) /\ req'[r].admitted

\* C5: every rate-limit record has 1 <= count <= Limit; a refused call leaves
\* the record as it was, an admitted call inside the window adds exactly one
\* to count and keeps the window start, and only a reset (no record, or the
\* window expired) sets count to 1 and the window start to now.
C5_RecordDiscipline == []C5_CountInRange /\ [][C5_Step]_vars

C5_Witness ==
    \E u \in Users :
        /\ requestCounts[u].count = Limit
        /\ requestCounts[u].timestamp > 0
        /\ rlWin[u].calls > Limit
        /\ \E r \in ChatSlots : req[r].userId # u /\ req[r].pc = "calling"

\* The records storeFile made for u that no deleteFile has removed, in the
\* order in which they were stored.
RECURSIVE Kept(_, _)
Kept(records, u) ==
    IF records = <<>> THEN <<>>
    ELSE (IF Head(records).userId = u /\ Head(records).id \notin deletedIds
          THEN <<Head(records)>> ELSE <<>>) \o Kept(Tail(records), u)

\* C6: getUserFiles(owner) is exactly the records stored for the owner and
\* not deleted since, in the order in which they were stored, and it is the
\* empty sequence for an owner that never stored a file.
C6_ListIsKeptInOrder ==
    \A u \in Users :
        /\ getUserFiles(u) = Kept(issued, u)
        /\ (\A i \in 1..Len(issued) : issued[i].userId # u) => getUserFiles(u) = <<>>

C6_Witness ==
    \E u \in Users, v \in Users :
        /\ Len(issued) = 3 /\ deletedIds = {2}
        /\ Len(getUserFiles(u)) = 2
        /\ getUserFiles(u)[1].id = 1 /\ getUserFiles(u)[2].id = 3
        /\ ~filesStore[v].has /\ getUserFiles(v) = <<>>

\* The DELETE requests served in a step.
Deletes == {req'[r] : r \in {q \in Slots : req[q] = Idle /\ req'[q] # Idle
                                           /\ req'[q].kind = "delete"
                                           /\ req'[q].userId # ""}}

RECURSIVE Without(_, _)
Without(files, fileId) ==
    IF files = <<>> THEN <<>>
    ELSE (IF Head(files).id = fileId THEN <<>> ELSE <<Head(files)>>)
            \o Without(Tail(files), fileId)

C7_Step ==
    \A d \in Deletes :
        IF ~Holds(filesStore, d.userId, d.fileId)
        THEN /\ d.status = 404 /\ d.code = "FILE_NOT_FOUND"
             /\ filesStore' = filesStore
        ELSE /\ d.status = 200
             /\ Len(filesStore'[d.userId].files) = Len(filesStore[d.userId].files) - 1
             /\ filesStore'[d.userId].files = Without(filesStore[d.userId].files, d.fileId)
             /\ \A v \in Users \ {d.userId} : filesStore'[v] = filesStore[v]
             /\ getFile(filesStore', d.userId, d.fileId) = NotFound
             /\ ~deleteFile(filesStore', disk', d.userId, d.fileId, TRUE).result

\* C7: deleteFile of an owner without a list, or of an id that is not in the
\* owner's list, returns false (404 FILE_NOT_FOUND) and leaves the registry
\* as it was; otherwise it returns true and removes that one record, the
\* other records keep their order, getFile no longer finds the record and a
\* second deleteFile with the same arguments returns false.
C7_DeleteSemantics == [][C7_Step]_vars

C7_Witness ==
    \E r \in Slots, q \in Slots :
        /\ req[r].kind = "delete" /\ req[q].kind = "delete"
        /\ req[r].status = 200 /\ req[q].status = 404
        /\ req[r].userId = req[q].userId /\ req[r].fileId = req[q].fileId
        /\ Len(getUserFiles(req[r].userId)) = 2

\* C8 as claimed: after a successful deleteFile whose file-system removal did
\* not fail, the file written for the upload no longer exists.
C8_StoredBytesRemoved ==
    \A r \in Slots :
        (req[r].kind = "delete" /\ req[r].status = 200 /\ ~req[r].unlinkFailed)
            => ~req[r].bytesLeft

\* C9: every record of the registry has tokenCount = ceil(len(extractedText) / 4):
\* 0 for the empty text, 3 for "Hello\nWorld".
C9_TokenCountIsCeil ==
    \A u \in Users : \A i \in 1..Len(getUserFiles(u)) :
        LET f == getUserFiles(u)[i]
            n == StrLen(f.extractedText)
        IN  /\ 4 * (f.tokenCount - 1) < n /\ n <= 4 * f.tokenCount
            /\ f.extractedText = <<>> => f.tokenCount = 0
            /\ f.extractedText = Hello => f.tokenCount = 3

C9_Witness ==
    \E i, j, k \in 1..Len(getUserFiles("u1")) :
        LET files == getUserFiles("u1")
        IN  /\ files[i].extractedText = <<>> /\ files[i].tokenCount = 0
            /\ files[j].extractedText = Hello
            /\ StrLen(files[k].extractedText) = 4 * files[k].tokenCount
            /\ files[k].tokenCount > 0

\* The upload-multiple requests in flight or answered.
Multis == {req[r] : r \in {q \in Slots : req[q].kind = "upload" /\ req[q].multi}}

\* The positions of trace whose file was stored (ok) or failed (~ok), in order.
RECURSIVE Marked(_, _)
Marked(trace, ok) ==
    IF trace = <<>> THEN <<>>
    ELSE (IF Head(trace).ok = ok THEN <<Head(trace).idx>> ELSE <<>>) \o Marked(Tail(trace), ok)

\* C10 as claimed: every file listed in uploadedFiles is in the user's
\* registry when the response is sent.
C10_ListedPresentAtResponse ==
    \A m \in Multis : (m.pc = "done" /\ m.status = 200) => m.present

\* C10 amended: the files are processed in request order, each exactly once;
\* each processed file is in exactly one of uploadedFiles and errors, a failed
\* one in errors under its own name; a file fails only if its own extraction
\* fails, whatever happened to the files before it; and every file listed in
\* uploadedFiles was stored in the user's registry by this request and is
\* still there unless a DELETE of it has been served since.
C10_PartitionInOrder ==
    \A m \in Multis :
        LET stored == Marked(m.trace, TRUE)
            failed == Marked(m.trace, FALSE)
        IN  /\ \A k \in 1..Len(m.trace) : m.trace[k].idx = k
            /\ (m.pc = "done" /\ m.status = 200) => Len(m.trace) = Len(m.files)
            /\ m.pc # "done" => Len(m.trace) = m.idx - 1
            /\ Len(m.uploadedFiles) = Len(stored) /\ Len(m.errors) = Len(failed)
            /\ \A j \in 1..Len(stored) :
                  /\ m.uploadedFiles[j].filename = m.files[stored[j]].originalname
                  /\ \E i \in 1..Len(issued) :
                        /\ issued[i].id = m.uploadedFiles[j].id
                        /\ issued[i].userId = m.userId
                        /\ issued[i].originalName = m.uploadedFiles[j].filename
                  /\ \/ Holds(filesStore, m.userId, m.uploadedFiles[j].id)
                     \/ m.uploadedFiles[j].id \in deletedIds
            /\ \A j \in 1..Len(failed) :
                  m.errors[j].filename = m.files[failed[j]].originalname
            /\ \A k \in 1..Len(m.trace) :
                  LET file == m.files[k]
                  IN  m.trace[k].ok <=> extractText(disk, file.path, file.mimetype).ok

C10_Witness ==
    \E m \in Multis, n \in Multis :
        /\ m.pc = "done" /\ m.status = 200 /\ Len(m.files) = 2
        /\ ~m.trace[1].ok /\ m.trace[2].ok
        /\ Len(m.uploadedFiles) = 1 /\ Len(m.errors) = 1
        /\ n.pc = "done" /\ n.status = 200 /\ ~n.present
        /\ n.uploadedFiles[1].id \in deletedIds

\* The single uploads that take a step.
UploadSteps == {r \in Slots : /\ req'[r] # req[r]
                              /\ req'[r].kind = "upload" /\ ~req'[r].multi}

C11_Step ==
    \A r \in UploadSteps :
        LET u == req'[r].userId
        IN  IF req'[r].status = 200
            THEN /\ Len(issued') = Len(issued) + 1
                 /\ getFile(filesStore', u, Len(issued')) = issued'[Len(issued')]
                 /\ filesStore'[u].files
                       = (IF filesStore[u].has THEN filesStore[u].files ELSE <<>>)
                            \o <<issued'[Len(issued')]>>
            ELSE filesStore' = filesStore /\ issued' = issued

\* C11: an upload adds its record in one step, the one in which extraction
\* and summary have succeeded (response 200); every other step of an upload,
\* and in particular one in which the extraction fails (unsupported format
\* or extraction error), leaves the registry exactly as it was.
C11_RecordOnlyOnSuccess == [][C11_Step]_vars

C11_Witness ==
    \E r \in Slots, q \in Slots :
        /\ req[r].kind = "upload" /\ req[r].status = 500
        /\ req[r].error = <<"<unsupported>">>
        /\ req[q].kind = "upload" /\ req[q].status = 500
        /\ req[q].error = <<"<failed-extract>">>
        /\ Len(getUserFiles("u1")) = 1

\* The least length systemPrompt + finalPrompt can have for a prompt: its
\* length over an empty registry.
MinChars(prompt) ==
    StrLen(buildSystemPrompt(buildFileContext(<<>>)))
        + StrLen(buildFinalPrompt(buildFileContext(<<>>), prompt))

\* The chats that passed validation and rate limiting with a prompt whose
\* estimate is above the ceiling whatever the registry holds.
Oversized == {c \in {req[r] : r \in ChatSlots} :
                 c.admitted /\ MinChars(c.prompt) > 4 * MAX_TOKENS_PER_REQUEST}

\* C12 as claimed: such a chat is answered 400 TOKEN_LIMIT_EXCEEDED whatever
\* the provider configuration is.
C12_TokenLimitWhateverConfig ==
    \A c \in Oversized : c.status = 400 /\ c.code = "TOKEN_LIMIT_EXCEEDED"

\* C12 amended: such a chat is answered 400 TOKEN_LIMIT_EXCEEDED when the
\* provider key is configured, and 500 OPENAI_CONFIG_ERROR when it is not
\* (the client is obtained before the estimate is made); in both cases at
\* once and without a provider call.
C12_TokenLimitWhenConfigured ==
    \A c \in Oversized :
        /\ c.pc = "done" /\ c.outcomes = <<>>
        /\ IF apiKey THEN c.status = 400 /\ c.code = "TOKEN_LIMIT_EXCEEDED"
                     ELSE c.status = 500 /\ c.code = "OPENAI_CONFIG_ERROR"

C12_Witness ==
    /\ ~apiKey
    /\ \E c \in Oversized : c.code = "OPENAI_CONFIG_ERROR"
    /\ \E r \in ChatSlots : req[r].admitted /\ req[r] \notin Oversized

\* C13: with no provider key, every chat that passed validation and rate
\* limiting is answered 500 OPENAI_CONFIG_ERROR at once: no provider call,
\* no retry and no wait, on the first such call and on every later one.
C13_FailFastWithoutKey ==
    ~apiKey =>
        \A r \in ChatSlots :
            req[r].admitted =>
                /\ req[r].pc = "done"
                /\ req[r].status = 500 /\ req[r].code = "OPENAI_CONFIG_ERROR"
                /\ req[r].outcomes = <<>> /\ req[r].delays = <<>>
                /\ req[r].attempt = 0 /\ ~client

C13_Witness ==
    /\ ~apiKey
    /\ \E r \in ChatSlots, q \in ChatSlots :
          /\ r # q /\ req[r].admitted /\ req[q].admitted
          /\ req[r].code = "OPENAI_CONFIG_ERROR" /\ req[q].code = "OPENAI_CONFIG_ERROR"
    /\ \E u \in Users : requestCounts[u].count = 2

\* C14 as claimed: a chat for which at least one provider call was made is
\* never answered with the code TOKEN_LIMIT_EXCEEDED, whatever the message
\* of the provider's error.
C14_TokenLimitOnlyBeforeCalls ==
    \A r \in ChatSlots :
        req[r].outcomes # <<>> => req[r].code # "TOKEN_LIMIT_EXCEEDED"

C15_NoEarlyWait ==
    \A r \in ChatSlots :
        /\ Len(req[r].delays) <= 2
        /\ (req[r].pc = "calling" /\ req[r].attempt = 0) => req[r].delays = <<>>
        /\ req[r].pc = "calling" => Len(req[r].delays) = req[r].attempt
        /\ \A k \in 1..Len(req[r].delays) : req[r].delays[k] = 1000 * k

C15_Step ==
    \A r \in ChatSlots :
        LET old == req[r]
            new == req'[r]
            n == Len(new.outcomes)
        IN  /\ (old.pc = "calling" /\ new.pc = "delaying") =>
                  /\ n \in {1, 2} /\ ~new.outcomes[n].ok
                  /\ new.delays = Append(old.delays, 1000 * n)
                  /\ new.wakeAt = now + 1000 * n
            /\ (old.pc = "delaying" /\ new.pc = "calling") =>
                  /\ now >= old.wakeAt
                  /\ new.attempt = old.attempt + 1
                  /\ new.delays = old.delays
            /\ (old.pc = "calling" /\ new.pc = "done") =>
                  /\ new.delays = old.delays
                  /\ new.outcomes[n].ok \/ n = 3

\* C15: after the failure of attempt n (n = 1, 2) chat waits 1000 * n ms
\* before it starts attempt n + 1; it waits neither before the first attempt,
\* nor after a successful attempt, nor after the third failure.
C15_LinearBackoff == []C15_NoEarlyWait /\ [][C15_Step]_vars

C15_Witness ==
    \E r \in ChatSlots :
        /\ req[r].pc = "done" /\ req[r].status # 200
        /\ Len(req[r].outcomes) = 3
        /\ req[r].delays = <<1000, 2000>>
        /\ now = 3000

\* The non-empty words of a text: its maximal runs of non-whitespace.
RECURSIVE WordsFrom(_, _)
WordsFrom(s, word) ==
    IF s = <<>> THEN (IF word = <<>> THEN <<>> ELSE <<word>>)
    ELSE IF Head(s) \in Whitespace
    THEN (IF word = <<>> THEN <<>> ELSE <<word>>) \o WordsFrom(Tail(s), <<>>)
    ELSE WordsFrom(Tail(s), Append(word, Head(s)))

WordsOf(s) == WordsFrom(s, <<>>)

RECURSIVE WordsOfAll(_)
WordsOfAll(chunks) ==
    IF chunks = <<>> THEN <<>> ELSE WordsOf(Head(chunks)) \o WordsOfAll(Tail(chunks))

ChunkCalls == {req[r] : r \in {q \in Slots : req[q].kind = "chunkText"}}

\* C16 as claimed: no chunk of chunkText(text, N) is longer than N
\* characters, unless it is a single word that alone is longer than N.
C16_ChunkWithinSize ==
    \A c \in ChunkCalls : \A i \in 1..Len(c.chunks) :
        \/ StrLen(c.chunks[i]) <= c.chunkSize
        \/ Len(WordsOf(c.chunks[i])) = 1

\* C17: the words of the chunks, taken in order, are exactly the non-empty
\* words of the text in their order; a text without words gives no chunk.
C17_WordsPreserved ==
    \A c \in ChunkCalls :
        /\ WordsOfAll(c.chunks) = WordsOf(c.text)
        /\ \A i \in 1..Len(c.chunks) : WordsOf(c.chunks[i]) # <<>>
        /\ WordsOf(c.text) = <<>> => c.chunks = <<>>

C17_Witness ==
    \E c \in ChunkCalls :
        /\ Len(c.chunks) = 2 /\ Len(WordsOf(c.text)) = 3
        /\ Head(c.text) \in Whitespace
        /\ Len(c.text) > Len(c.chunks[1]) + Len(c.chunks[2]) + 1

\* The lines of a text, found from the positions of its newlines.
Breaks(text) == {0, Len(text) + 1} \cup {i \in 1..Len(text) : text[i] = "\n"}
BreakAt(text, k) ==
    CHOOSE i \in Breaks(text) : Cardinality({j \in Breaks(text) : j < i}) = k
LinesOf(text) ==
    [k \in 1..(Cardinality(Breaks(text)) - 1) |->
        SubSeq(text, BreakAt(text, k - 1) + 1, BreakAt(text, k) - 1)]
HasInk(line) == \E i \in 1..Len(line) : line[i] \notin {" ", "\n", "\t", "\r"}

RECURSIVE SpaceJoined(_)
SpaceJoined(lines) ==
    IF lines = <<>> THEN <<>>
    ELSE IF Len(lines) = 1 THEN Chars(lines[1])
    ELSE Chars(lines[1]) \o <<" ">> \o SpaceJoined(Tail(lines))

FirstFive(text) ==
    LET ink == SelectSeq(LinesOf(text), HasInk)
    IN  SpaceJoined([k \in 1..(IF Len(ink) < 5 THEN Len(ink) ELSE 5) |-> ink[k]])

SummaryCalls == {req[r] : r \in {q \in Slots : req[q].kind = "generateSummary"}}

\* C18: the summary is the first five non-blank lines joined by single
\* spaces and cut to 200 characters, followed by "..." exactly when the
\* joined text is longer than 200 characters; it is never longer than 203
\* characters, and summarizing a summary of at most 200 characters gives
\* that summary back.
C18_SummaryShape ==
    \A c \in SummaryCalls :
        LET joined == FirstFive(c.text)
            cut == [i \in 1..(IF Len(joined) < 200 THEN Len(joined) ELSE 200) |-> joined[i]]
        IN  /\ Chars(c.summary) = (IF Len(joined) > 200 THEN cut \o <<".", ".", ".">> ELSE cut)
            /\ StrLen(c.summary) <= 203
            /\ StrLen(c.summary) <= 200 => generateSummary(c.summary) = c.summary

\* A text of six lines, one of them blank, whose five non-blank lines join
\* to more than 200 characters: the summary is 200 characters and "...".
C18_Witness ==
    \E c \in SummaryCalls :
        /\ Len(SelectSeq(LinesOf(c.text), HasInk)) = 5
        /\ Len(LinesOf(c.text)) = 6
        /\ Len(FirstFive(c.text)) > 200
        /\ StrLen(c.summary) = 203

\* A line of exactly 200 characters is returned whole and summarizes to itself.
C18_WitnessAtLimit ==
    \E c \in SummaryCalls : Len(FirstFive(c.text)) = 200 /\ StrLen(c.summary) = 200

ExtractCalls == {req[r] : r \in {q \in Slots : req[q].kind = "extractText"}}

\* The dispatch rules in their order, and the first of them a call matches
\* (4 when it matches none).
Rules(c) ==
    << c.mimeType = "text/csv" \/ (c.mimeType = "text/plain" /\ c.path.ext = ".csv"),
       c.mimeType = DocxMime \/ c.path.ext = ".docx",
       c.mimeType = "text/plain" \/ c.path.ext = ".txt",
       TRUE >>
FirstMatch(c) == CHOOSE k \in 1..4 : Rules(c)[k] /\ \A j \in 1..(k - 1) : ~Rules(c)[j]
OnDisk(c) == [p \in {c.path} |-> c.bytes]

\* C19: extractText returns what the handler of the first matching rule
\* returns (CSV, then DOCX, then plain text), and fails with the
\* unsupported-format error exactly when no rule matches.
C19_FirstMatchingRule ==
    \A c \in ExtractCalls :
        /\ FirstMatch(c) = 1 => c.result = extractCsvText(OnDisk(c), c.path)
        /\ FirstMatch(c) = 2 => c.result = extractDocxText(OnDisk(c), c.path)
        /\ FirstMatch(c) = 3 => c.result = extractTextFile(OnDisk(c), c.path)
        /\ FirstMatch(c) = 4 <=> c.result.error = <<"<unsupported>">>

\* A .docx path sent as text/csv goes to the CSV handler, whose output
\* differs from the DOCX and the plain-text handlers' on the same bytes.
C19_Witness ==
    \E c \in ExtractCalls :
        /\ c.mimeType = "text/csv" /\ c.path.ext = ".docx"
        /\ c.result = extractCsvText(OnDisk(c), c.path) /\ c.result.ok
        /\ c.result # extractDocxText(OnDisk(c), c.path)
        /\ c.result # extractTextFile(OnDisk(c), c.path)
        /\ extractDocxText(OnDisk(c), c.path).ok

\* application/pdf with a .pdf suffix matches no rule.
C19_WitnessUnsupported ==
    \E c \in ExtractCalls :
        /\ c.mimeType = "application/pdf" /\ c.path.ext = ".pdf"
        /\ ~c.result.ok /\ c.result.error = <<"<unsupported>">>

\* C20 as claimed: a chat that succeeded reports the provider's total
\* whenever the response carried a usage figure, and the local estimate
\* only when the response carried none.
C20_ProviderUsageReported ==
    \A r \in ChatSlots :
        (req[r].pc = "done" /\ req[r].status = 200) =>
            /\ req[r].usage # <<>> => req[r].tokensUsed = req[r].usage[1]
            /\ req[r].usage = <<>> => req[r].tokensUsed = req[r].estimatedTokens

\* The files a context block describes, read back from its text: the name
\* stands between "File: " and the date, the summary between "Summary: " and
\* the rule that ends the description.
Described(fileContext) ==
    LET pieces == Split(fileContext, "<file>")
    IN  [i \in 1..(Len(pieces) - 1) |->
            [name |-> Split(pieces[i + 1], "<date>")[1],
             summary |-> Split(Split(pieces[i + 1], "<summary>")[2], "<rule>")[1]]]

\* The context inside a user message: what stands before "User Query: ".
ContextOf(c) == SubSeq(c.finalPrompt, 1, Len(c.finalPrompt) - Len(c.prompt) - 1)

Began(r) == req[r] = Idle /\ req'[r].kind = "chat" /\ req'[r].systemPrompt # <<>>

\* The step in which a chat starts, compared with its owner's list.
C21_Step ==
    \A r \in Slots :
        Began(r) =>
            LET c == req'[r]
                files == IF filesStore[c.userId].has THEN filesStore[c.userId].files ELSE <<>>
                ctx == ContextOf(c)
            IN  /\ c.systemPrompt = <<"<system-head>">> \o ctx \o <<"<system-tail>">>
                /\ c.finalPrompt = ctx \o <<"<user-query>">> \o c.prompt
                /\ c.filesReferenced = [i \in 1..Len(files) |-> files[i].originalName]
                /\ files = <<>> => ctx = <<"<no-files>">>
                /\ files # <<>> =>
                      /\ Head(ctx) = "<available>"
                      /\ Described(ctx) = [i \in 1..Len(files) |->
                                              [name |-> files[i].originalName,
                                               summary |-> files[i].summary]]

\* C21: a chat by u takes its context and its filesReferenced from exactly
\* the files of u's list, in the order of the list: the context in the
\* system prompt and in the user message describes each file by its display
\* name and summary, filesReferenced holds the same names in the same order,
\* and with no files the context is the fixed sentence and filesReferenced
\* is empty.
C21_ContextFromRegistry == [][C21_Step]_vars

\* A chat in flight that names two files of different names, the second of
\* which was stored after a deletion.
C21_Witness ==
    \E r \in ChatSlots :
        /\ req[r].pc = "calling"
        /\ Len(req[r].filesReferenced) = 2
        /\ req[r].filesReferenced[1] # req[r].filesReferenced[2]
        /\ deletedIds # {}
        /\ filesStore[req[r].userId].files # <<>>
        /\ req[r].filesReferenced[2] = filesStore[req[r].userId].files[Len(filesStore[req[r].userId].files)].originalName

UploadSlots == {r \in Slots : req[r].kind = "upload"}

\* A file that is none of CSV, TXT and DOCX, by its MIME type and by its suffix.
OtherType(file) ==
    /\ file.mimetype \notin {"text/csv", "text/plain", DocxMime}
    /\ file.path.ext \notin {".csv", ".CSV", ".txt", ".docx"}

\* C22 as claimed: an upload refused for the type of its file is answered
\* with the code FILE_TYPE_ERROR.
C22_FileTypeErrorCode ==
    \A r \in UploadSlots :
        (req[r].pc = "done" /\ \E i \in 1..Len(req[r].files) : OtherType(req[r].files[i]))
            => req[r].code = "FILE_TYPE_ERROR"

IdsOf(u) == {filesStore[u].files[i].id : i \in 1..Len(filesStore[u].files)}

\* In every state: a record is in the list of the owner it names, and an id
\* of B's list is neither found nor deleted for another owner A.
C23_OwnRecords ==
    /\ \A u \in Users : \A i \in 1..Len(filesStore[u].files) :
          filesStore[u].files[i].userId = u
    /\ \A a \in Users, b \in Users : \A id \in IdsOf(b) :
          a # b => /\ getFile(filesStore, a, id) = NotFound
                   /\ ~deleteFile(filesStore, disk, a, id, TRUE).result
                   /\ deleteFile(filesStore, disk, a, id, TRUE).store = filesStore

\* The request that arrives in a step, if one does.
Arrives(r) == req[r] = Idle /\ req'[r] # Idle

\* In every step: a list changes only in a step of a request of its owner;
\* a read or a delete by A of an id of another owner's list is answered
\* not-found; a read returns a record of the reader's own list, and a
\* listing shows the reader's own list.
C23_OwnerStep ==
    /\ \A b \in Users :
          filesStore'[b] # filesStore[b] =>
              \E r \in Slots : req'[r] # req[r] /\ req'[r] # Idle /\ req'[r].userId = b
    /\ \A r \in Slots :
          (Arrives(r) /\ req'[r].kind \in {"get", "delete"} /\ req'[r].userId # "") =>
              IF req'[r].fileId \in IdsOf(req'[r].userId)
              THEN req'[r].status = 200
              ELSE req'[r].status = 404 /\ filesStore' = filesStore
    /\ \A r \in Slots :
          (Arrives(r) /\ req'[r].kind = "get" /\ req'[r].status = 200) =>
              /\ req'[r].file.userId = req'[r].userId
              /\ req'[r].file.id = req'[r].fileId
              /\ \E i \in 1..Len(filesStore[req'[r].userId].files) :
                    filesStore[req'[r].userId].files[i] = req'[r].file
    /\ \A r \in Slots :
          (Arrives(r) /\ req'[r].kind = "list" /\ req'[r].status = 200) =>
              /\ Len(req'[r].files) = Len(filesStore[req'[r].userId].files)
              /\ \A i \in 1..Len(req'[r].files) :
                    req'[r].files[i].id = filesStore[req'[r].userId].files[i].id

\* C23: registry access is owner-scoped: for distinct owners A and B and an
\* id of B's list, getFile(A, id) finds nothing and deleteFile(A, id)
\* returns false; no operation of A changes B's list; every record of a
\* list names the owner of that list.
C23_OwnerScoped == []C23_OwnRecords /\ [][C23_OwnerStep]_vars

\* Owner u1 has read and has tried to delete a file of u2, which u2 still
\* holds, and both were answered not-found.
C23_Witness ==
    /\ filesStore["u1"].files # <<>> /\ filesStore["u2"].files # <<>>
    /\ \E r \in Slots : /\ req[r].kind = "get" /\ req[r].userId = "u1"
                        /\ req[r].fileId \in IdsOf("u2") /\ req[r].status = 404
    /\ \E r \in Slots : /\ req[r].kind = "delete" /\ req[r].userId = "u1"
                        /\ req[r].fileId \in IdsOf("u2") /\ req[r].status = 404

\* What the validation of POST /chat refuses: no userId, or a prompt that is
\* missing or only whitespace.
Invalid(c) == c.userId = "" \/ \A i \in 1..Len(c.prompt) : c.prompt[i] \in {" ", "\n"}

\* The limiter refuses a call when the user's record is inside its window
\* and full.
Refuses(counts, userId, t) ==
    /\ counts[userId] # NoRecord
    /\ t - counts[userId].timestamp <= Window
    /\ counts[userId].count >= Limit

\* In every state: a chat answered RATE_LIMIT_EXCEEDED was not admitted, and a
\* chat has provider calls only after it was validated, admitted and given
\* its context.
C24_OrderKept ==
    \A r \in ChatSlots :
        LET c == req[r]
        IN  /\ c.code = "RATE_LIMIT_EXCEEDED" =>
                  ~c.admitted /\ ~Invalid(c) /\ c.outcomes = <<>> /\ c.systemPrompt = <<>>
            /\ c.admitted => ~Invalid(c)
            /\ c.systemPrompt # <<>> => c.admitted
            /\ (c.outcomes # <<>> \/ c.pc \in {"calling", "delaying"}) =>
                  c.admitted /\ c.systemPrompt # <<>> /\ c.finalPrompt # <<>>

\* In every step in which a chat request arrives: a request that fails
\* validation is answered 400 and leaves the rate-limit records as they
\* were; a valid request the limiter refuses is answered 429
\* RATE_LIMIT_EXCEEDED at once, with no context built and no provider call;
\* a valid request the limiter admits is counted.
C24_ArrivalStep ==
    \A r \in Slots :
        (Arrives(r) /\ req'[r].kind = "chat") =>
            LET c == req'[r]
            IN  IF Invalid(c)
                THEN /\ c.status = 400
                     /\ c.code \in {"MISSING_USER_ID", "MISSING_PROMPT"}
                     /\ c.pc = "done" /\ ~c.admitted /\ c.outcomes = <<>>
                     /\ requestCounts' = requestCounts
                ELSE IF Refuses(requestCounts, c.userId, now)
                THEN /\ c.status = 429 /\ c.code = "RATE_LIMIT_EXCEEDED"
                     /\ c.pc = "done" /\ ~c.admitted
                     /\ c.systemPrompt = <<>> /\ c.filesReferenced = <<>>
                     /\ c.outcomes = <<>>
                ELSE /\ c.admitted /\ c.code # "RATE_LIMIT_EXCEEDED"
                     /\ requestCounts'[c.userId] # requestCounts[c.userId]

\* C24: POST /chat validates, then asks the limiter, then reads the files
\* and builds the context, then calls the provider: a request refused by
\* validation changes no rate-limit record, a request refused by the limiter
\* is answered 429 RATE_LIMIT_EXCEEDED with no registry read and no provider
\* call, and that code is given to no other request.
C24_RouteOrder == []C24_OrderKept /\ [][C24_ArrivalStep]_vars

\* The limiter has refused a valid chat of a user whose record is full.
C24_Witness ==
    \E r \in ChatSlots :
        /\ req[r].code = "RATE_LIMIT_EXCEEDED" /\ req[r].status = 429
        /\ req[r].pc = "done" /\ ~Invalid(req[r])
        /\ requestCounts[req[r].userId].count = Limit

\* The provider's own rate-limit error has ended a chat after three calls,
\* with a different code.
C24_WitnessProvider ==
    \E r \in ChatSlots : req[r].code = "OPENAI_RATE_LIMIT" /\ Len(req[r].outcomes) = 3

\* C25 as claimed: a maxTokens or a temperature that the body supplies is
\* the value the provider call is given, and the default is used only for a
\* field the body leaves out.
C25_SuppliedValuesPassed ==
    \A r \in ChatSlots :
        req[r].outcomes # <<>> =>
            /\ req[r].max_tokens = (IF req[r].bodyMaxTokens = <<>> THEN DEFAULT_MAX_TOKENS
                                    ELSE req[r].bodyMaxTokens[1])
            /\ req[r].temperature = (IF req[r].bodyTemperature = <<>> THEN DEFAULT_TEMPERATURE
                                     ELSE req[r].bodyTemperature[1])

\* The record of a user after one more admitted call at time t.
Counted(counts, userId, t) ==
    IF counts[userId] = NoRecord \/ t - counts[userId].timestamp > Window
    THEN [count |-> 1, timestamp |-> t]
    ELSE [count |-> counts[userId].count + 1, timestamp |-> counts[userId].timestamp]

ChatArrives == \E r \in Slots : Arrives(r) /\ req'[r].kind = "chat"

\* In every step: the admission of a chat counts it, also when the chat ends
\* in the same step with the token-limit or the configuration error; a step
\* in which no chat arrives (a provider answer or error, a retry timer, the
\* end of a chat, the clock) leaves the rate-limit records as they are; and
\* a step of a chat changes neither the registry nor the stored files.
C26_Step ==
    /\ \A r \in Slots :
          (Arrives(r) /\ req'[r].kind = "chat" /\ req'[r].admitted) =>
              /\ requestCounts'[req'[r].userId] = Counted(requestCounts, req'[r].userId, now)
              /\ \A u \in Users \ {req'[r].userId} : requestCounts'[u] = requestCounts[u]
    /\ ~ChatArrives => requestCounts' = requestCounts
    /\ \A r \in Slots :
          (req'[r] # req[r] /\ (req[r].kind = "chat" \/ req'[r].kind = "chat")) =>
              filesStore' = filesStore /\ disk' = disk /\ issued' = issued

\* C26: the unit of quota an admitted chat takes is never given back: however
\* the chat ends, the count its admission set stays, and the gateway changes
\* neither the rate-limit records nor the file registry.
C26_QuotaNotReturned == [][C26_Step]_vars

\* Two admitted chats, one ended by the token ceiling and one by three failed
\* calls, and the user's record still counts both.
C26_Witness ==
    /\ requestCounts["u1"].count = 2
    /\ \E r \in ChatSlots : req[r].pc = "done" /\ req[r].code = "TOKEN_LIMIT_EXCEEDED"
    /\ \E r \in ChatSlots : /\ req[r].pc = "done" /\ req[r].status = 500
                            /\ Len(req[r].outcomes) = 3

\* A chat ended by the missing key, counted as well.
C26_WitnessNoKey ==
    /\ requestCounts["u1"].count = 1
    /\ \E r \in ChatSlots : req[r].pc = "done" /\ req[r].code = "OPENAI_CONFIG_ERROR"

NamesOf(files) == [i \in 1..Len(files) |-> files[i].originalName]

\* In every step: a chat that starts takes the names of its owner's list as
\* it is then, and from then on, whatever is uploaded or deleted while the
\* chat waits for the provider or for its retry timer, every step leaves
\* its system prompt, its user message and its filesReferenced unchanged:
\* every attempt sends the same two messages, and the answer returns the
\* names of the start.
C27_Step ==
    \A r \in Slots :
        /\ Began(r) =>
              req'[r].filesReferenced = NamesOf(getUserFiles(req'[r].userId))
        /\ (req[r].kind = "chat" /\ req'[r].kind = "chat") =>
              /\ req'[r].systemPrompt = req[r].systemPrompt
              /\ req'[r].finalPrompt = req[r].finalPrompt
              /\ req'[r].filesReferenced = req[r].filesReferenced
              /\ req'[r].prompt = req[r].prompt

\* The context a chat sent and the names it returns describe the same files.
C27_Consistent ==
    \A r \in ChatSlots :
        req[r].systemPrompt # <<>> =>
            /\ req[r].systemPrompt
                  = <<"<system-head>">> \o ContextOf(req[r]) \o <<"<system-tail>">>
            /\ Len(Described(ContextOf(req[r]))) = Len(req[r].filesReferenced)
            /\ req[r].filesReferenced =
                  [i \in 1..Len(req[r].filesReferenced) |->
                      Described(ContextOf(req[r]))[i].name]

\* C27: uploads and deletes of u that interleave with a chat of u in flight
\* do not affect it: every attempt sends the same system prompt and user
\* message, and filesReferenced is u's list as it was when the chat started.
C27_ChatUnaffected == []C27_Consistent /\ [][C27_Step]_vars

\* A chat answered at its third attempt returns the one name of its start,
\* while its owner's list has meanwhile lost that file and gained another.
C27_Witness ==
    \E r \in ChatSlots :
        /\ req[r].pc = "done" /\ req[r].status = 200 /\ Len(req[r].outcomes) = 3
        /\ Len(req[r].filesReferenced) = 1
        /\ deletedIds # {}
        /\ Len(filesStore["u1"].files) = 1
        /\ filesStore["u1"].files[1].originalName # req[r].filesReferenced[1]

\* C28 as claimed: a file the upload filter accepts is never refused by
\* extractText as an unsupported file type.
C28_AcceptedIsDispatched ==
    \A r \in UploadSlots :
        (\A i \in 1..Len(req[r].files) : ~OtherType(req[r].files[i])) =>
            /\ req[r].error # <<"<unsupported>">>
            /\ \A i \in 1..Len(req[r].errors) : req[r].errors[i].error # <<"<unsupported>">>

\* C29 as claimed: in every state the summary of every record of the registry
\* is generateSummary of the extracted text of that same record.
C29_SummaryOfStoredText ==
    \A u \in Users : \A i \in 1..Len(filesStore[u].files) :
        filesStore[u].files[i].summary
            = generateSummary(filesStore[u].files[i].extractedText)

\* The characters of the two messages of a chat, counted from the display
\* names and the summaries of the files (every date takes the same room):
\* the context stands in both messages.
RECURSIVE BlockChars(_)
BlockChars(files) ==
    IF files = <<>> THEN 0
    ELSE 7 + StrLen(Head(files).originalName) + 12 + 10 + StrLen(Head(files).summary) + 4
           + (IF Len(files) > 1 THEN 1 ELSE 0) + BlockChars(Tail(files))

ContextChars(files) == IF files = <<>> THEN 32 ELSE 21 + BlockChars(files)

MessageChars(files, prompt) ==
    100 + ContextChars(files) + 210 + ContextChars(files) + 14 + StrLen(prompt)

Over(files, prompt) == MessageChars(files, prompt) > 4 * MAX_TOKENS_PER_REQUEST

\* list is what an earlier list has grown into with no deletion.
GrownFrom(list, earlier) ==
    Len(earlier) <= Len(list) /\ \A i \in 1..Len(earlier) : list[i] = earlier[i]

\* In every step: the estimate of a chat that starts is the count above, made
\* of the names, dates and summaries alone, and the chat is refused for the
\* ceiling exactly when that count is over it; and a step that stores a file
\* and deletes none raises the count for every prompt.
C30_Step ==
    /\ \A r \in Slots :
          Began(r) =>
              LET c == req'[r]
                  files == getUserFiles(c.userId)
              IN  /\ 4 * c.estimatedTokens >= MessageChars(files, c.prompt)
                  /\ 4 * c.estimatedTokens < MessageChars(files, c.prompt) + 4
                  /\ Over(files, c.prompt) <=> c.code = "TOKEN_LIMIT_EXCEEDED"
                  /\ Over(files, c.prompt) => c.pc = "done" /\ c.status = 400
    /\ \A u \in Users :
          (filesStore'[u] # filesStore[u] /\ deletedIds' = deletedIds) =>
              /\ GrownFrom(filesStore'[u].files, filesStore[u].files)
              /\ \A prompt \in GrowPrompts :
                    /\ MessageChars(filesStore'[u].files, prompt)
                          > MessageChars(filesStore[u].files, prompt)
                    /\ Over(filesStore[u].files, prompt) => Over(filesStore'[u].files, prompt)

\* In every state: of two chats of one user with the same prompt, where the
\* second was given the files of the first and possibly more, the second is
\* refused for the ceiling if the first was.
C30_StaysRefused ==
    \A r \in ChatSlots, q \in ChatSlots :
        ( /\ req[r].code = "TOKEN_LIMIT_EXCEEDED"
          /\ req[q].systemPrompt # <<>>
          /\ req[q].userId = req[r].userId /\ req[q].prompt = req[r].prompt
          /\ GrownFrom(Described(ContextOf(req[q])), Described(ContextOf(req[r]))) )
            => req[q].code = "TOKEN_LIMIT_EXCEEDED" /\ req[q].outcomes = <<>>

\* C30: the estimate depends on the files only through their names, dates
\* and summaries and does not go down when a file is stored: once a chat of u
\* is refused for the ceiling, a later chat of u with the same prompt is
\* refused too, however many files are uploaded, until a file is deleted.
C30_RefusedUntilDelete == []C30_StaysRefused /\ [][C30_Step]_vars

\* A prompt that passed with an empty list was refused after one upload and
\* refused again after a second upload.
C30_Witness ==
    \E r \in ChatSlots, q \in ChatSlots :
        /\ req[r].code = "TOKEN_LIMIT_EXCEEDED" /\ req[q].code = "TOKEN_LIMIT_EXCEEDED"
        /\ req[r].prompt = req[q].prompt
        /\ ~Over(<<>>, req[r].prompt)
        /\ Len(req[r].filesReferenced) = 1 /\ Len(req[q].filesReferenced) = 2
        /\ deletedIds = {}

\* After the deletion of the file the same prompt passes again.
C30_WitnessAfterDelete ==
    \E r \in ChatSlots, q \in ChatSlots :
        /\ req[r].code = "TOKEN_LIMIT_EXCEEDED" /\ req[q].pc = "calling"
        /\ req[r].prompt = req[q].prompt
        /\ deletedIds # {}

====
